---- MODULE Spec2Model ----
(***************************************************************************)
(* Model of the xai_sepolia chain client of moonstream-to/seer             *)
(* (blockchain/xai_sepolia/xai_sepolia.go).                                *)
(*                                                                         *)
(* The operations are modelled each under its own specification:           *)
(*   SpecLogs   ClientFilterLogs, the adaptive eth_getLogs range fetcher   *)
(*   SpecAsync  FetchBlocksInRangeAsync, the bounded-concurrency fetcher   *)
(*   SpecS4     FetchBlocksInRangeAsync on blocks [1, 5], maxRequests 5    *)
(*   SpecSeq    ParseBlocksAndTransactions (choice of the fetcher) and     *)
(*              FetchBlocksInRange, the sequential fetcher                 *)
(*   SpecProto  ParseBlocksAndTransactions (normalisation),                *)
(*              FetchAsProtoBlocks and FetchAsProtoEvents                  *)
(*   SpecLabels DecodeProtoEventsToLabels, DecodeProtoTransactionsToLabels *)
(*   SpecHex    toHex and fromHex                                          *)
(*   SpecCache  the three operations that read a block cache               *)
(*   SpecEnv    indexer.CheckVariablesForIndexer                           *)
(*   SpecRanges the operations that take a block range, fetchBlocks among  *)
(*              them                                                       *)
(*   SpecLogsLive SpecLogs with the fairness of a running loop             *)
(* A specification leaves the variables of the other operations at their   *)
(* initial values.                                                         *)
(***************************************************************************)
EXTENDS Integers, Sequences, FiniteSets, TLC

VARIABLES
    \* ---- ClientFilterLogs ----
    qFrom,        \* q.FromBlock, the caller's lower bound
    qTo,          \* q.ToBlock, the caller's upper bound
    server,       \* the eth_getLogs endpoint the client talks to
    fromBlock,    \* local cursor fromBlock
    batchStep,    \* local batchStep
    logs,         \* local accumulator logs
    calls,        \* the eth_getLogs requests issued so far, with their outcome
    lpc,          \* "loop" while the for loop runs, "returned" afterwards
    retLogs,      \* returned log slice (<<>> is the nil slice)
    retErr,       \* returned error (NoError is nil)
    \* ---- FetchBlocksInRangeAsync ----
    aFrom,        \* from
    aTo,          \* to
    maxRequests,  \* capacity of the semaphore channel
    spawned,      \* number of elements of blockNumbersRange already launched
    tpc,          \* position of each goroutine
    getErr,       \* each goroutine's getErr
    sem,          \* number of tokens held in the sem channel
    errChan,      \* buffer of errChan (capacity 1)
    mu,           \* holder of the mutex, 0 when free
    blocks,       \* the shared result slice
    wg,           \* WaitGroup counter
    requests,     \* eth_getBlockByNumber requests issued so far, per block
    failedLog,    \* blocks whose failure was logged ("Failed to fetch block number")
    fetched,      \* blocks whose GetBlockByNumber returned a block that is not
                  \* appended yet, in the order in which the fetches completed
    mpc,          \* position of the calling goroutine
    retBlocks,    \* returned block slice (<<>> is the nil slice)
    retAErr,      \* returned error
    \* ---- FetchAsProtoBlocks / FetchAsProtoEvents ----
    pOp,                 \* "blocks" (FetchAsProtoBlocks) or "events" (FetchAsProtoEvents)
    blocksJson,          \* the fetched blocks, in fetched order
    parsedBlocks,        \* ParseBlocksAndTransactions: the block records
    parsedTransactions,  \* the flattened transaction sequence
    blocksProto,         \* returned block messages
    blockIndex,          \* the BlockIndex rows built so far
    blocksCache,         \* block number -> BlockCache entry
    transactionsProto,   \* returned transaction messages
    transactionIndex,    \* the TransactionIndex rows built so far
    parsedEvents,        \* ParseEvents: the event records
    eventsProto,         \* returned event messages
    eventsIndex,         \* the LogIndex rows built so far
    ppc                  \* "parse", "blocks", "loop" (transactions), "events",
                         \* "returned"

logVars   == <<qFrom, qTo, server, fromBlock, batchStep, logs, calls, lpc, retLogs, retErr>>
asyncVars == <<fetched, aFrom, aTo, maxRequests, spawned, tpc, getErr, sem, errChan, mu, blocks,
               wg, requests, failedLog, mpc, retBlocks, retAErr>>
protoVars == <<pOp, blocksJson, parsedBlocks, parsedTransactions, blocksProto, blockIndex,
               blocksCache, transactionsProto, transactionIndex, parsedEvents,
               eventsProto, eventsIndex, ppc>>

VARIABLES
    \* ---- DecodeProtoEventsToLabels / DecodeProtoTransactionsToLabels ----
    lOp,          \* which of the two decoders is called: "events" or "transactions"
    lData,        \* the base64 strings handed in
    decoded,      \* decodedEvents / decodedTransactions
    lNext,        \* number of decoded records the range loop has gone through
    labels,       \* local accumulator labels
    lbpc,         \* "decode", "loop", "returned" or "panic"
    retLabels,    \* returned label slice (<<>> is the nil slice)
    retLErr       \* returned error

labelVars == <<lOp, lData, decoded, lNext, labels, lbpc, retLabels, retLErr>>

VARIABLES
    \* ---- ParseBlocksAndTransactions / FetchBlocksInRange ----
    sFrom,        \* argument from (the caller's value)
    sTo,          \* argument to
    sMax,         \* argument maxRequests
    path,         \* fetcher chosen: "none", "sequential" or "async"
    sI,           \* loop variable i of FetchBlocksInRange, a copy of from
    sReqs,        \* block numbers of the eth_getBlockByNumber requests issued
    sBlocks,      \* local accumulator blocks
    spc,          \* "idle", "dispatch", "call1", "call2", "async", "returned"
    retSBlocks,   \* returned blocks (<<>> is the nil slice)
    retSErr       \* returned error

seqVars   == <<sFrom, sTo, sMax, path, sI, sReqs, sBlocks, spc, retSBlocks, retSErr>>

VARIABLES
    \* ---- fromHex ----
    hNum,         \* the number handed to toHex; -1 when the string does not come
                  \* from toHex
    hIn,          \* argument hex, a sequence of characters
    hOut,         \* value of the returned *big.Int
    hFailure,     \* failure reported to the caller; fromHex has no such result
    hpc           \* "idle", "tohex", "call" or "returned"

VARIABLES
    \* ---- indexer.CheckVariablesForIndexer ----
    env,                           \* the environment of the process: name -> value
    SeerCrawlerLabel,              \* package variable indexer.SeerCrawlerLabel
    MOONSTREAM_DB_V3_INDEXES_URI,  \* package variable of the same name
    epc,                           \* "idle", "start", "label", "uri" or "returned"
    retEnvErr                      \* the error returned

hexVars   == <<hNum, hIn, hOut, hFailure, hpc>>
envVars   == <<env, SeerCrawlerLabel, MOONSTREAM_DB_V3_INDEXES_URI, epc, retEnvErr>>

vars      == <<logVars, asyncVars, protoVars, labelVars, seqVars, hexVars, envVars>>

(***************************************************************************)
(* Bounds of the model.                                                    *)
(***************************************************************************)
MaxBlock == 5       \* log ranges are drawn from 0..MaxBlock
MaxCap == 3         \* window caps of the capped server are drawn from 1..MaxCap
MaxABlock == 4      \* async block ranges are drawn from 1..MaxABlock
MaxReq == 4         \* maxRequests is drawn from 1..MaxReq
MaxInputLen == 12   \* transaction inputs have 0..MaxInputLen characters
MaxTxs == 2         \* a batch holds 1..MaxTxs transactions
MaxFetched == 2     \* a normalised batch holds 0..MaxFetched blocks
MaxEvents == 2      \* and 0..MaxEvents event logs
MaxNum == 300       \* toHex is called on the numbers 0..MaxNum
MaxHexLen == 4      \* fromHex is called on strings of 0..MaxHexLen characters
MaxRecords == 2     \* a label batch holds 0..MaxRecords persisted records

Min(a, b) == IF a < b THEN a ELSE b

NoError == <<>>

(***************************************************************************)
(* Error messages are sequences of words; strings.Contains is a search for *)
(* a contiguous run of words.                                              *)
(***************************************************************************)
Contains(s, sub) ==
    \E i \in 0..(Len(s) - Len(sub)) : SubSeq(s, i + 1, i + Len(sub)) = sub

TooManyResultsText == <<"query", "returned", "more", "than", "10000", "results">>

TooManyMessages ==
    { TooManyResultsText,
      <<"rpc", "error:">> \o TooManyResultsText \o <<"in", "range">> }

OtherMessages ==
    { <<"context", "deadline", "exceeded">>,
      <<"query", "returned", "more", "than", "1000", "results">> }

IsTooManyLoose(err) == Contains(err, <<"query", "returned", "more", "than">>)

IsTooMany(err) == Contains(err, TooManyResultsText)

(***************************************************************************)
(* The chain: block b carries (b % 2) + 1 logs, identified by              *)
(* <<block number, log index>>.  An eth_getLogs answer for a window lists  *)
(* the logs of its blocks in (block, log index) order.                     *)
(***************************************************************************)
NumLogs(b) == (b % 2) + 1

LogsOfBlock(b) == [i \in 1..NumLogs(b) |-> <<b, i - 1>>]

RECURSIVE WindowLogs(_, _)
WindowLogs(f, t) == IF f > t THEN <<>> ELSE LogsOfBlock(f) \o WindowLogs(f + 1, t)

OkAnswer(f, t) == [err |-> NoError, logs |-> WindowLogs(f, t)]
ErrAnswer(e) == [err |-> e, logs |-> <<>>]

\* The answers the endpoint may give to eth_getLogs for the window [f, t].
\* A capped server refuses exactly the windows of more than server.cap blocks.
\* A free server answers in any pattern; it reports too many results only for
\* a window that holds at least one block.
GetLogs(f, t) ==
    IF server.mode = "cap"
    THEN IF t - f + 1 > server.cap
         THEN {ErrAnswer(server.tooMany)}
         ELSE {OkAnswer(f, t)}
    ELSE {OkAnswer(f, t)}
         \cup (IF f <= t THEN {ErrAnswer(server.tooMany)} ELSE {})
         \cup {ErrAnswer(e) : e \in OtherMessages}

(***************************************************************************)
(* ClientFilterLogs                                                        *)
(***************************************************************************)
HalveByOne(s) == s - 1

HalveNever(s) == IF s > 1 THEN s ELSE 0

Halve(s) == s \div 2

NextBlockUnclipped == fromBlock + batchStep

\* nextBlock := fromBlock + batchStep, clipped to toBlock
NextBlock == Min(fromBlock + batchStep, qTo)

Call(f, t, e) == [fromBlock |-> f, toBlock |-> t, err |-> e]

S3 == [from |-> 100, to |-> 110, cap |-> 4]

LogsIdle ==
    /\ qFrom = 0 /\ qTo = 0
    /\ server = [mode |-> "none"]
    /\ fromBlock = 0 /\ batchStep = 0
    /\ logs = <<>> /\ calls = <<>>
    /\ lpc = "idle" /\ retLogs = <<>> /\ retErr = NoError

LogsInit ==
    /\ \/ /\ qFrom \in 0..MaxBlock
          /\ qTo \in 0..MaxBlock
          /\ server \in
                [mode : {"cap"}, cap : 1..MaxCap, tooMany : TooManyMessages]
                \cup [mode : {"free"}, cap : {0}, tooMany : TooManyMessages]
       \/ /\ qFrom = S3.from
          /\ qTo = S3.to
          /\ server = [mode |-> "cap", cap |-> S3.cap, tooMany |-> TooManyResultsText]
    /\ fromBlock = qFrom
    /\ batchStep = qTo - qFrom
    /\ logs = <<>>
    /\ calls = <<>>
    /\ lpc = "loop"
    /\ retLogs = <<>>
    /\ retErr = NoError

\* eth_getLogs succeeded: append, advance the cursor, leave when past toBlock.
FilterLogsOk ==
    /\ lpc = "loop"
    /\ \E ans \in GetLogs(fromBlock, NextBlock) :
        /\ ans.err = NoError
        /\ calls' = Append(calls, Call(fromBlock, NextBlock, NoError))
        /\ logs' = logs \o ans.logs
        /\ fromBlock' = NextBlock + 1
        /\ IF fromBlock' > qTo
           THEN lpc' = "returned" /\ retLogs' = logs' /\ retErr' = NoError
           ELSE UNCHANGED <<lpc, retLogs, retErr>>
    /\ UNCHANGED <<qFrom, qTo, server, batchStep>>
    /\ UNCHANGED <<asyncVars, protoVars, labelVars, seqVars, hexVars, envVars>>

\* Too many results and the halved step is still at least 1: retry narrower.
FilterLogsNarrow ==
    /\ lpc = "loop"
    /\ \E ans \in GetLogs(fromBlock, NextBlock) :
        /\ ans.err # NoError
        /\ IsTooMany(ans.err)
        /\ ~(Halve(batchStep) < 1)
        /\ calls' = Append(calls, Call(fromBlock, NextBlock, ans.err))
        /\ batchStep' = Halve(batchStep)
    /\ UNCHANGED <<qFrom, qTo, server, fromBlock, logs, lpc, retLogs, retErr>>
    /\ UNCHANGED <<asyncVars, protoVars, labelVars, seqVars, hexVars, envVars>>

\* Too many results and the halved step is below 1: move the cursor past the
\* window that was just refused.
FilterLogsSkip ==
    /\ lpc = "loop"
    /\ \E ans \in GetLogs(fromBlock, NextBlock) :
        /\ ans.err # NoError
        /\ IsTooMany(ans.err)
        /\ Halve(batchStep) < 1
        /\ calls' = Append(calls, Call(fromBlock, NextBlock, ans.err))
        /\ batchStep' = Halve(batchStep)
        /\ fromBlock' = NextBlock + 1
        /\ IF fromBlock' > qTo
           THEN lpc' = "returned" /\ retLogs' = logs /\ retErr' = NoError
           ELSE UNCHANGED <<lpc, retLogs, retErr>>
    /\ UNCHANGED <<qFrom, qTo, server, logs>>
    /\ UNCHANGED <<asyncVars, protoVars, labelVars, seqVars, hexVars, envVars>>

\* Any other error: return nil, err.
FilterLogsFail ==
    /\ lpc = "loop"
    /\ \E ans \in GetLogs(fromBlock, NextBlock) :
        /\ ans.err # NoError
        /\ ~IsTooMany(ans.err)
        /\ calls' = Append(calls, Call(fromBlock, NextBlock, ans.err))
        /\ lpc' = "returned"
        /\ retLogs' = <<>>
        /\ retErr' = ans.err
    /\ UNCHANGED <<qFrom, qTo, server, fromBlock, batchStep, logs>>
    /\ UNCHANGED <<asyncVars, protoVars, labelVars, seqVars, hexVars, envVars>>

(***************************************************************************)
(* FetchBlocksInRangeAsync                                                 *)
(*                                                                         *)
(* One goroutine per block number of the range.  A goroutine is at         *)
(*   "none"     not launched yet                                           *)
(*   "acquire"  before  sem <- struct{}{}                                  *)
(*   "call1"    first eth_getBlockByNumber request of GetBlockByNumber     *)
(*   "call2"    second eth_getBlockByNumber request of GetBlockByNumber    *)
(*   "report"   getErr != nil, before the select on errChan                *)
(*   "lock"     before mu.Lock()                                           *)
(*   "append"   holding mu, before the append                              *)
(*   "unlock"   before mu.Unlock()                                         *)
(*   "release"  before <-sem                                               *)
(*   "done"     returned; the deferred wg.Done() has run                   *)
(***************************************************************************)
S4 == [from |-> 1, to |-> 5, maxRequests |-> 5]

ABlocks == 1..(IF MaxABlock > S4.to THEN MaxABlock ELSE S4.to)

RangeLen == IF aTo >= aFrom THEN aTo - aFrom + 1 ELSE 0

BlockRange == {b \in ABlocks : aFrom <= b /\ b <= aTo}

\* The error of the n-th eth_getBlockByNumber request for block b.
RpcError(b, n) == <<"eth_getBlockByNumber", b, n>>

InFlight == {b \in ABlocks : tpc[b] \in {"call1", "call2"}}

AsyncIdle ==
    /\ aFrom = 1 /\ aTo = 0 /\ maxRequests = 1 /\ spawned = 0
    /\ tpc = [b \in ABlocks |-> "none"]
    /\ getErr = [b \in ABlocks |-> NoError]
    /\ sem = 0 /\ errChan = <<>> /\ mu = 0 /\ blocks = <<>> /\ wg = 0
    /\ requests = [b \in ABlocks |-> 0]
    /\ failedLog = {} /\ fetched = <<>>
    /\ mpc = "idle" /\ retBlocks = <<>> /\ retAErr = NoError

\* Everything of a call but its arguments.
AsyncEntry ==
    /\ spawned = 0
    /\ tpc = [b \in ABlocks |-> "none"]
    /\ getErr = [b \in ABlocks |-> NoError]
    /\ sem = 0
    /\ errChan = <<>>
    /\ mu = 0
    /\ blocks = <<>>
    /\ wg = 0
    /\ requests = [b \in ABlocks |-> 0]
    /\ failedLog = {}
    /\ fetched = <<>>
    /\ mpc = "run"
    /\ retBlocks = <<>>
    /\ retAErr = NoError

AsyncInit ==
    /\ aFrom \in 1..MaxABlock
    /\ aTo \in 0..MaxABlock
    /\ maxRequests \in 1..MaxReq
    /\ AsyncEntry

\* Scenario S4: blocks [1, 5] fetched with maxRequests = 5.
AsyncInitS4 ==
    /\ aFrom = S4.from
    /\ aTo = S4.to
    /\ maxRequests = S4.maxRequests
    /\ AsyncEntry

\* for _, b := range blockNumbersRange { wg.Add(1); go func(b) {...}(b) }
Spawn ==
    /\ mpc = "run"
    /\ spawned < RangeLen
    /\ tpc' = [tpc EXCEPT ![aFrom + spawned] = "acquire"]
    /\ wg' = wg + 1
    /\ spawned' = spawned + 1
    /\ UNCHANGED <<fetched, aFrom, aTo, maxRequests, getErr, sem, errChan, mu, blocks,
                   requests, failedLog, mpc, retBlocks, retAErr>>
    /\ UNCHANGED <<logVars, protoVars, labelVars, seqVars, hexVars, envVars>>

SemHasRoomAlways == TRUE

\* A send on the buffered channel sem proceeds only while the buffer is not full.
SemHasRoom == sem < maxRequests

\* sem <- struct{}{}, then GetBlockByNumber issues its first request.
Acquire(b) ==
    /\ tpc[b] = "acquire"
    /\ SemHasRoom
    /\ sem' = sem + 1
    /\ requests' = [requests EXCEPT ![b] = 1]
    /\ tpc' = [tpc EXCEPT ![b] = "call1"]
    /\ UNCHANGED <<fetched, aFrom, aTo, maxRequests, spawned, getErr, errChan, mu, blocks,
                   wg, failedLog, mpc, retBlocks, retAErr>>
    /\ UNCHANGED <<logVars, protoVars, labelVars, seqVars, hexVars, envVars>>

\* The first request succeeded; GetBlockByNumber issues the second one.
Call1Ok(b) ==
    /\ tpc[b] = "call1"
    /\ requests' = [requests EXCEPT ![b] = 2]
    /\ tpc' = [tpc EXCEPT ![b] = "call2"]
    /\ UNCHANGED <<fetched, aFrom, aTo, maxRequests, spawned, getErr, sem, errChan, mu,
                   blocks, wg, failedLog, mpc, retBlocks, retAErr>>
    /\ UNCHANGED <<logVars, protoVars, labelVars, seqVars, hexVars, envVars>>

\* The first request failed: GetBlockByNumber returns nil, err.
Call1Fail(b) ==
    /\ tpc[b] = "call1"
    /\ getErr' = [getErr EXCEPT ![b] = RpcError(b, 1)]
    /\ failedLog' = failedLog \cup {b}
    /\ tpc' = [tpc EXCEPT ![b] = "report"]
    /\ UNCHANGED <<fetched, aFrom, aTo, maxRequests, spawned, sem, errChan, mu, blocks, wg,
                   requests, mpc, retBlocks, retAErr>>
    /\ UNCHANGED <<logVars, protoVars, labelVars, seqVars, hexVars, envVars>>

\* The second request succeeded: GetBlockByNumber returns its block.
Call2Ok(b) ==
    /\ tpc[b] = "call2"
    /\ tpc' = [tpc EXCEPT ![b] = "lock"]
    /\ fetched' = Append(fetched, b)
    /\ UNCHANGED <<aFrom, aTo, maxRequests, spawned, getErr, sem, errChan, mu,
                   blocks, wg, requests, failedLog, mpc, retBlocks, retAErr>>
    /\ UNCHANGED <<logVars, protoVars, labelVars, seqVars, hexVars, envVars>>

\* The second request failed: GetBlockByNumber returns block, err.
Call2Fail(b) ==
    /\ tpc[b] = "call2"
    /\ getErr' = [getErr EXCEPT ![b] = RpcError(b, 2)]
    /\ failedLog' = failedLog \cup {b}
    /\ tpc' = [tpc EXCEPT ![b] = "report"]
    /\ UNCHANGED <<fetched, aFrom, aTo, maxRequests, spawned, sem, errChan, mu, blocks, wg,
                   requests, mpc, retBlocks, retAErr>>
    /\ UNCHANGED <<logVars, protoVars, labelVars, seqVars, hexVars, envVars>>

OfferErrorOverwrite(ch, e) == <<e>>

\* select { case errChan <- getErr: default: } on a channel of capacity 1.
OfferError(ch, e) == IF Len(ch) < 1 THEN Append(ch, e) ELSE ch

\* The failure branch: offer the error, return, run the deferred wg.Done().
\* The semaphore token is not given back on this path.
Report(b) ==
    /\ tpc[b] = "report"
    /\ errChan' = OfferError(errChan, getErr[b])
    /\ wg' = wg - 1
    /\ tpc' = [tpc EXCEPT ![b] = "done"]
    /\ UNCHANGED <<fetched, aFrom, aTo, maxRequests, spawned, getErr, sem, mu, blocks,
                   requests, failedLog, mpc, retBlocks, retAErr>>
    /\ UNCHANGED <<logVars, protoVars, labelVars, seqVars, hexVars, envVars>>

Lock(b) ==
    /\ tpc[b] = "lock"
    /\ mu = 0
    /\ mu' = b
    /\ tpc' = [tpc EXCEPT ![b] = "append"]
    /\ UNCHANGED <<fetched, aFrom, aTo, maxRequests, spawned, getErr, sem, errChan, blocks,
                   wg, requests, failedLog, mpc, retBlocks, retAErr>>
    /\ UNCHANGED <<logVars, protoVars, labelVars, seqVars, hexVars, envVars>>

\* Insertion at the place of b in block-number order.
AppendBlockSorted(bs, b) ==
    SelectSeq(bs, LAMBDA x : x < b) \o <<b>> \o SelectSeq(bs, LAMBDA x : x > b)

AppendBlockOverLast(bs, b) == IF bs = <<>> THEN <<b>> ELSE [bs EXCEPT ![Len(bs)] = b]

\* blocks = append(blocks, block)
AppendBlock(bs, b) == Append(bs, b)

AppendLocked(b) ==
    /\ tpc[b] = "append"
    /\ blocks' = AppendBlock(blocks, b)
    /\ fetched' = SelectSeq(fetched, LAMBDA x : x # b)
    /\ tpc' = [tpc EXCEPT ![b] = "unlock"]
    /\ UNCHANGED <<aFrom, aTo, maxRequests, spawned, getErr, sem, errChan, mu, wg,
                   requests, failedLog, mpc, retBlocks, retAErr>>
    /\ UNCHANGED <<logVars, protoVars, labelVars, seqVars, hexVars, envVars>>

Unlock(b) ==
    /\ tpc[b] = "unlock"
    /\ mu' = 0
    /\ tpc' = [tpc EXCEPT ![b] = "release"]
    /\ UNCHANGED <<fetched, aFrom, aTo, maxRequests, spawned, getErr, sem, errChan, blocks,
                   wg, requests, failedLog, mpc, retBlocks, retAErr>>
    /\ UNCHANGED <<logVars, protoVars, labelVars, seqVars, hexVars, envVars>>

\* <-sem, return, run the deferred wg.Done().
Release(b) ==
    /\ tpc[b] = "release"
    /\ sem' = sem - 1
    /\ wg' = wg - 1
    /\ tpc' = [tpc EXCEPT ![b] = "done"]
    /\ UNCHANGED <<fetched, aFrom, aTo, maxRequests, spawned, getErr, errChan, mu, blocks,
                   requests, failedLog, mpc, retBlocks, retAErr>>
    /\ UNCHANGED <<logVars, protoVars, labelVars, seqVars, hexVars, envVars>>

\* <-errChan on the closed channel: the buffered error, or nil when empty.
ReceiveError(ch) == IF ch # <<>> THEN Head(ch) ELSE NoError

\* wg.Wait() returns once the counter is zero; then close(sem), close(errChan),
\* receive from errChan and return.
WaitReturn ==
    /\ mpc = "run"
    /\ spawned = RangeLen
    /\ wg = 0
    /\ retAErr' = ReceiveError(errChan)
    /\ retBlocks' = IF retAErr' # NoError THEN <<>> ELSE blocks
    /\ errChan' = <<>>
    /\ mpc' = "returned"
    /\ UNCHANGED <<fetched, aFrom, aTo, maxRequests, spawned, tpc, getErr, sem, mu, blocks,
                   wg, requests, failedLog>>
    /\ UNCHANGED <<logVars, protoVars, labelVars, seqVars, hexVars, envVars>>

(***************************************************************************)
(* FetchAsProtoBlocks: the loop that builds the TransactionIndex rows.     *)
(* A transaction input is a sequence of characters.                        *)
(***************************************************************************)
(***************************************************************************)
(* fromHex: number.SetString(hex, 0) of math/big, result flag dropped       *)
(***************************************************************************)
LowerDigits == <<"0", "1", "2", "3", "4", "5", "6", "7", "8", "9",
                 "a", "b", "c", "d", "e", "f">>

UpperDigits == <<"A", "B", "C", "D", "E", "F">>

\* Value of a character as a digit; a character that is no digit of any base
\* up to 16 has a value above every base, as in math/big.
DigitValue(c) ==
    IF \E i \in 1..16 : LowerDigits[i] = c
    THEN (CHOOSE i \in 1..16 : LowerDigits[i] = c) - 1
    ELSE IF \E i \in 1..6 : UpperDigits[i] = c
    THEN (CHOOSE i \in 1..6 : UpperDigits[i] = c) + 9
    ELSE 63

RECURSIVE ScanDigits(_, _, _, _)
\* The digit loop of nat.scan: reads digits of the base from position i on and
\* stops in front of the first character that is none.
ScanDigits(str, i, base, acc) ==
    IF i <= Len(str) /\ DigitValue(str[i]) < base
    THEN ScanDigits(str, i + 1, base, acc * base + DigitValue(str[i]))
    ELSE [val |-> acc, next |-> i]

\* base 0: "0x"/"0X" selects 16, "0b"/"0B" 2, "0o"/"0O" 8, a leading "0" 8,
\* anything else 10.
BaseOf(str) ==
    IF str # <<>> /\ str[1] = "0"
    THEN IF Len(str) >= 2 /\ str[2] \in {"x", "X"} THEN [base |-> 16, start |-> 3]
         ELSE IF Len(str) >= 2 /\ str[2] \in {"b", "B"} THEN [base |-> 2, start |-> 3]
         ELSE IF Len(str) >= 2 /\ str[2] \in {"o", "O"} THEN [base |-> 8, start |-> 3]
         ELSE [base |-> 8, start |-> 2]
    ELSE [base |-> 10, start |-> 1]

\* (*big.Int).SetString(str, 0) on a receiver that is 0: ok is the success
\* flag, val the value the receiver is left with.  The whole string must be
\* consumed for success; on failure the receiver keeps the digits read up to
\* the offending character (math/big documents that value as undefined).
SetString(str) ==
    LET b == BaseOf(str)
        r == ScanDigits(str, b.start, b.base, 0)
        bare0 == b.base = 8 /\ b.start = 2      \* a "0" that is no prefix
    IN IF str = <<>> THEN [ok |-> FALSE, val |-> 0]
       ELSE IF r.next = b.start /\ ~bare0 THEN [ok |-> FALSE, val |-> 0]
       ELSE [ok |-> r.next > Len(str), val |-> r.val]

\* number := new(big.Int); number.SetString(hex, 0); return number
FromHex(str) == SetString(str).val

RECURSIVE HexDigitsOf(_)
HexDigitsOf(n) ==
    IF n < 16 THEN <<LowerDigits[n + 1]>>
    ELSE Append(HexDigitsOf(n \div 16), LowerDigits[(n % 16) + 1])

ToHexNoPrefix(n) == HexDigitsOf(n)

\* fmt.Sprintf("0x%x", number)
ToHex(n) == <<"0", "x">> \o HexDigitsOf(n)

HexAlphabet == {"0", "1", "8", "a", "b", "F", "x", "X", "g"}

HexStrings == UNION {[1..n -> HexAlphabet] : n \in 0..MaxHexLen}

HexIdle == hNum = -1 /\ hIn = <<>> /\ hOut = 0 /\ hFailure = "none" /\ hpc = "idle"

\* fromHex is called on a string, or on the string toHex makes of a number.
HexInit ==
    /\ hOut = 0
    /\ hFailure = "none"
    /\ \/ hNum = -1 /\ hIn \in HexStrings /\ hpc = "call"
       \/ hNum \in 0..MaxNum /\ hIn = <<>> /\ hpc = "tohex"

\* toHex(number)
ToHexCall ==
    /\ hpc = "tohex"
    /\ hIn' = ToHex(hNum)
    /\ hpc' = "call"
    /\ UNCHANGED <<hNum, hOut, hFailure>>
    /\ UNCHANGED <<logVars, asyncVars, protoVars, labelVars, seqVars, envVars>>

\* fromHex(hex): the only result is the number.
FromHexCall ==
    /\ hpc = "call"
    /\ hOut' = FromHex(hIn)
    /\ hpc' = "returned"
    /\ UNCHANGED <<hNum, hIn, hFailure>>
    /\ UNCHANGED <<logVars, asyncVars, protoVars, labelVars, seqVars, envVars>>

TransferCall ==
    <<"0", "x", "a", "9", "0", "5", "9", "c", "b", "b", "0", "0", "d", "e", "a", "d">>

ApproveCall ==
    <<"0", "x", "0", "9", "5", "e", "a", "7", "b", "3", "f", "f", "b", "e", "e", "f">>

Prefix(s, n) == SubSeq(s, 1, Min(n, Len(s)))

TransferSelector == Prefix(TransferCall, 10)

\* topic0 of Transfer(address,address,uint256), shortened
TransferTopic == <<"0", "x", "d", "d", "f", "2", "5", "2", "a", "d">>

\* topic0 of an event no ABI is registered for
UnknownTopic == <<"0", "x", "8", "c", "5", "b", "e", "1", "e", "5">>

Inputs == {Prefix(s, n) : s \in {TransferCall, ApproveCall}, n \in 0..MaxInputLen}

\* selector := "0x"; if len(transaction.Input) > 10 { selector = transaction.Input[:10] }
SelectorOf(input) ==
    IF Len(input) > 10 THEN SubSeq(input, 1, 10) ELSE <<"0", "x">>

\* (*big.Int).Uint64(); the model's words are 16 bits wide in place of 64.
Uint64(v) == v % (2 ^ 16)

BlockHashOf(n) == <<"blockhash", n>>

\* A transaction as eth_getBlockByNumber embeds it in block n at position k:
\* it names its block by number and hash and has no timestamp of its own.
TransactionJson(n, k, input) ==
    [ Hash |-> <<"txhash", n, k>>,
      BlockNumber |-> ToHex(n),
      BlockHash |-> BlockHashOf(n),
      BlockTimestamp |-> <<>>,
      Input |-> input,
      TransactionIndex |-> ToHex(k - 1) ]

BlockJson(n, inputs) ==
    [ BlockNumber |-> ToHex(n),
      Hash |-> BlockHashOf(n),
      ParentHash |-> BlockHashOf(n - 1),
      Timestamp |-> ToHex(1700 + n),
      \* block 2 has a difficulty of one more than the largest word
      Difficulty |-> IF n = 2 THEN ToHex(2 ^ 16) ELSE ToHex(2),
      GasLimit |-> ToHex(30000),
      GasUsed |-> ToHex(21000 * Len(inputs)),
      Size |-> ToHex(500 + Len(inputs)),
      IndexedAt |-> <<>>,
      L1BlockNumber |-> ToHex(100 + n),
      ExtraData |-> <<"extra", n>>,
      Transactions |-> [k \in 1..Len(inputs) |-> TransactionJson(n, k, inputs[k])] ]

InputLists(set) == UNION {[1..n -> set] : n \in 0..MaxTxs}

\* The batches that are normalised: one block with transactions of every
\* input, and up to MaxFetched blocks in any order, each with 0..MaxTxs
\* transactions, plain transfers and calls in turn.
BlockBatches ==
    {<<BlockJson(1, inputs)>> : inputs \in InputLists(Inputs)}
    \cup UNION { { [i \in 1..n |->
                      BlockJson(ns[i], [k \in 1..counts[i] |->
                                           Prefix(TransferCall, 2 + 10 * ((ns[i] + k) % 2))])] :
                     ns \in {f \in [1..n -> 1..(MaxFetched + 1)] :
                                \A i, j \in 1..n : f[i] = f[j] => i = j},
                     counts \in [1..n -> 0..MaxTxs] } :
                 n \in 0..MaxFetched }

ToProtoSingleBlock(obj) ==
    [ BlockNumber |-> Uint64(FromHex(obj.BlockNumber)),
      Hash |-> obj.Hash,
      ParentHash |-> obj.ParentHash,
      Timestamp |-> Uint64(FromHex(obj.Timestamp)),
      Difficulty |-> Uint64(FromHex(obj.Difficulty)),
      GasLimit |-> Uint64(FromHex(obj.GasLimit)),
      GasUsed |-> Uint64(FromHex(obj.GasUsed)),
      Size |-> Uint64(FromHex(obj.Size)),
      IndexedAt |-> Uint64(FromHex(obj.IndexedAt)),
      L1BlockNumber |-> Uint64(FromHex(obj.L1BlockNumber)),
      ExtraData |-> obj.ExtraData ]

ToProtoSingleTransaction(obj) ==
    [ Hash |-> obj.Hash,
      BlockNumber |-> Uint64(FromHex(obj.BlockNumber)),
      BlockHash |-> obj.BlockHash,
      Input |-> obj.Input,
      TransactionIndex |-> Uint64(FromHex(obj.TransactionIndex)),
      BlockTimestamp |-> Uint64(FromHex(obj.BlockTimestamp)) ]

KeepOwnTimestamp(txJson, blockJson) == txJson

\* txJson.BlockTimestamp = blockJson.Timestamp
StampTransaction(txJson, blockJson) ==
    [txJson EXCEPT !.BlockTimestamp = blockJson.Timestamp]

\* The event records ParseEvents hands over, with 0 to 4 topics.
TopicLists == {SubSeq(<<TransferTopic, UnknownTopic, TransferSelector, <<"0", "x">>>>, 1, n) :
                  n \in 0..4}

ParsedEventRecords ==
    [ Address : {"0xaaa"},
      Topics : TopicLists,
      BlockNumber : {1, 2},
      BlockHash : {<<"blockhash">>},
      TransactionHash : {<<"txhash", 1>>},
      LogIndex : {7} ]

\* The argument blocksCahche of FetchAsProtoEvents: it knows block 1 only.
EventsCache ==
    1 :> [BlockNumber |-> 1, BlockHash |-> BlockHashOf(1), BlockTimestamp |-> 1701]

CachedTimestampAny(cache, n) == cache[CHOOSE k \in DOMAIN cache : TRUE].BlockTimestamp

\* blocksCahche[n].BlockTimestamp: a missing key gives the zero BlockCache.
CachedTimestamp(cache, n) == IF n \in DOMAIN cache THEN cache[n].BlockTimestamp ELSE 0

ProtoIdle ==
    /\ pOp = "none" /\ blocksJson = <<>> /\ parsedBlocks = <<>>
    /\ parsedTransactions = <<>> /\ blocksProto = <<>> /\ blockIndex = <<>>
    /\ blocksCache = <<>> /\ transactionsProto = <<>> /\ transactionIndex = <<>>
    /\ parsedEvents = <<>> /\ eventsProto = <<>> /\ eventsIndex = <<>>
    /\ ppc = "idle"

ProtoInit ==
    /\ parsedBlocks = <<>> /\ parsedTransactions = <<>>
    /\ blocksProto = <<>> /\ blockIndex = <<>>
    /\ transactionsProto = <<>> /\ transactionIndex = <<>>
    /\ eventsProto = <<>> /\ eventsIndex = <<>>
    /\ \/ /\ pOp = "blocks"
          /\ blocksJson \in BlockBatches
          /\ blocksCache = <<>>
          /\ parsedEvents = <<>>
          /\ ppc = "parse"
       \/ /\ pOp = "events"
          /\ blocksJson = <<>>
          /\ blocksCache = EventsCache
          /\ \E n \in 0..MaxEvents : parsedEvents \in [1..n -> ParsedEventRecords]
          /\ ppc = "events"

ProtoFrame == UNCHANGED <<logVars, asyncVars, labelVars, seqVars, hexVars, envVars>>

\* ParseBlocksAndTransactions, one iteration of  for _, blockJson := range blocksJson.
ParseBlock ==
    /\ ppc = "parse"
    /\ Len(parsedBlocks) < Len(blocksJson)
    /\ LET blockJson == blocksJson[Len(parsedBlocks) + 1]
       IN /\ parsedTransactions' = parsedTransactions \o
                [k \in 1..Len(blockJson.Transactions) |->
                    ToProtoSingleTransaction(
                        StampTransaction(blockJson.Transactions[k], blockJson))]
          /\ parsedBlocks' = Append(parsedBlocks, ToProtoSingleBlock(blockJson))
    /\ UNCHANGED <<pOp, blocksJson, blocksProto, blockIndex, blocksCache,
                   transactionsProto, transactionIndex, parsedEvents, eventsProto,
                   eventsIndex, ppc>>
    /\ ProtoFrame

\* A range loop has gone through its sequence: the next statement is reached.
ProtoAdvance ==
    /\ \/ ppc = "parse" /\ Len(parsedBlocks) = Len(blocksJson) /\ ppc' = "blocks"
       \/ ppc = "blocks" /\ Len(blockIndex) = Len(parsedBlocks) /\ ppc' = "loop"
    /\ UNCHANGED <<pOp, blocksJson, parsedBlocks, parsedTransactions, blocksProto,
                   blockIndex, blocksCache, transactionsProto, transactionIndex,
                   parsedEvents, eventsProto, eventsIndex>>
    /\ ProtoFrame

RowIDOne(index) == index + 1

\* uint64(index), index the 0-based position the range loop is at
RowID(index) == index

\* indexer.NewBlockIndex("xai_sepolia", ...): the row holds the arguments of
\* the call.
NewBlockIndex(blockNumber, blockHash, blockTimestamp, parentHash, rowID, l1BlockNumber) ==
    [ BlockNumber |-> blockNumber,
      BlockHash |-> blockHash,
      BlockTimestamp |-> blockTimestamp,
      ParentHash |-> parentHash,
      RowID |-> rowID,
      L1BlockNumber |-> l1BlockNumber ]

\* One iteration of  for index, block := range parsedBlocks.
IndexBlock ==
    /\ ppc = "blocks"
    /\ Len(blockIndex) < Len(parsedBlocks)
    /\ LET index == Len(blockIndex)
           block == parsedBlocks[index + 1]
       IN /\ blocksProto' = Append(blocksProto, block)
          /\ blocksCache' =
                (block.BlockNumber :> [BlockNumber |-> block.BlockNumber,
                                       BlockHash |-> block.Hash,
                                       BlockTimestamp |-> block.Timestamp])
                @@ blocksCache
          /\ blockIndex' = Append(blockIndex,
                NewBlockIndex(block.BlockNumber, block.Hash, block.Timestamp,
                              block.ParentHash, RowID(index), block.L1BlockNumber))
    /\ UNCHANGED <<pOp, blocksJson, parsedBlocks, parsedTransactions,
                   transactionsProto, transactionIndex, parsedEvents, eventsProto,
                   eventsIndex, ppc>>
    /\ ProtoFrame

\* One iteration of  for index, transaction := range parsedTransactions.
IndexTransaction ==
    /\ ppc = "loop"
    /\ Len(transactionIndex) < Len(parsedTransactions)
    /\ LET index == Len(transactionIndex)
           transaction == parsedTransactions[index + 1]
       IN /\ transactionsProto' = Append(transactionsProto, transaction)
          /\ transactionIndex' = Append(transactionIndex,
                [ BlockNumber |-> transaction.BlockNumber,
                  BlockHash |-> transaction.BlockHash,
                  BlockTimestamp |-> transaction.BlockTimestamp,
                  RowID |-> RowID(index),
                  Selector |-> SelectorOf(transaction.Input),
                  TransactionHash |-> transaction.Hash,
                  TransactionIndex |-> transaction.TransactionIndex ])
    /\ UNCHANGED <<pOp, blocksJson, parsedBlocks, parsedTransactions, blocksProto,
                   blockIndex, blocksCache, parsedEvents, eventsProto, eventsIndex,
                   ppc>>
    /\ ProtoFrame

TopicAtOrFirst(topics, n) == IF Len(topics) > 0 THEN <<topics[1]>> ELSE <<>>

\* var topic *string; if len(event.Topics) > n - 1 { topic = &event.Topics[n - 1] }:
\* <<>> is the nil pointer, <<t>> a pointer to t.
TopicAt(topics, n) == IF Len(topics) > n - 1 THEN <<topics[n]>> ELSE <<>>

\* FetchAsProtoEvents, one iteration of  for index, event := range parsedEvents.
IndexEvent ==
    /\ ppc = "events"
    /\ Len(eventsIndex) < Len(parsedEvents)
    /\ LET index == Len(eventsIndex)
           event == parsedEvents[index + 1]
       IN /\ eventsProto' = Append(eventsProto, event)
          /\ eventsIndex' = Append(eventsIndex,
                [ Address |-> event.Address,
                  BlockNumber |-> event.BlockNumber,
                  BlockHash |-> event.BlockHash,
                  BlockTimestamp |-> CachedTimestamp(blocksCache, event.BlockNumber),
                  TransactionHash |-> event.TransactionHash,
                  Selector |-> TopicAt(event.Topics, 1),
                  Topic1 |-> TopicAt(event.Topics, 2),
                  Topic2 |-> TopicAt(event.Topics, 3),
                  RowID |-> RowID(index),
                  LogIndex |-> event.LogIndex ])
    /\ UNCHANGED <<pOp, blocksJson, parsedBlocks, parsedTransactions, blocksProto,
                   blockIndex, blocksCache, transactionsProto, transactionIndex,
                   parsedEvents, ppc>>
    /\ ProtoFrame

ProtoReturn ==
    /\ \/ ppc = "loop" /\ Len(transactionIndex) = Len(parsedTransactions)
       \/ ppc = "events" /\ Len(eventsIndex) = Len(parsedEvents)
    /\ ppc' = "returned"
    /\ UNCHANGED <<pOp, blocksJson, parsedBlocks, parsedTransactions, blocksProto,
                   blockIndex, blocksCache, transactionsProto, transactionIndex,
                   parsedEvents, eventsProto, eventsIndex>>
    /\ ProtoFrame

(***************************************************************************)
(* indexer.CheckVariablesForIndexer                                        *)
(*                                                                         *)
(* The environment is a function from the names that are set to their      *)
(* values; a name outside its domain is unset.                             *)
(***************************************************************************)
EnvNames == {"SEER_CRAWLER_INDEXER_LABEL", "MOONSTREAM_DB_V3_INDEXES_URI"}

EnvStrings == {"", "seer", "xai-crawler", "postgres://indexes", "postgres://labels"}

GetenvOrDefault(name) == IF name \in DOMAIN env THEN env[name] ELSE "seer"

\* os.Getenv: the value of the variable, empty when it is unset.
Getenv(name) == IF name \in DOMAIN env THEN env[name] ELSE ""

Required(name) == <<name, "environment", "variable", "is", "required">>

EnvIdle ==
    /\ env = <<>> /\ SeerCrawlerLabel = "" /\ MOONSTREAM_DB_V3_INDEXES_URI = ""
    /\ epc = "idle" /\ retEnvErr = NoError

EnvInit ==
    /\ \E D \in SUBSET EnvNames : env \in [D -> EnvStrings]
    /\ SeerCrawlerLabel = ""
    /\ MOONSTREAM_DB_V3_INDEXES_URI = ""
    /\ epc = "start"
    /\ retEnvErr = NoError

EnvFrame == UNCHANGED <<logVars, asyncVars, protoVars, labelVars, seqVars, hexVars>>

\* SeerCrawlerLabel = os.Getenv("SEER_CRAWLER_INDEXER_LABEL")
GetenvLabel ==
    /\ epc = "start"
    /\ SeerCrawlerLabel' = Getenv("SEER_CRAWLER_INDEXER_LABEL")
    /\ epc' = "label"
    /\ UNCHANGED <<env, MOONSTREAM_DB_V3_INDEXES_URI, retEnvErr>>
    /\ EnvFrame

\* if SeerCrawlerLabel == "" { return fmt.Errorf(...) }
LabelRequired ==
    /\ epc = "label"
    /\ SeerCrawlerLabel = ""
    /\ retEnvErr' = Required("SEER_CRAWLER_INDEXER_LABEL")
    /\ epc' = "returned"
    /\ UNCHANGED <<env, SeerCrawlerLabel, MOONSTREAM_DB_V3_INDEXES_URI>>
    /\ EnvFrame

\* MOONSTREAM_DB_V3_INDEXES_URI = os.Getenv("MOONSTREAM_DB_V3_INDEXES_URI")
GetenvURI ==
    /\ epc = "label"
    /\ SeerCrawlerLabel # ""
    /\ MOONSTREAM_DB_V3_INDEXES_URI' = Getenv("MOONSTREAM_DB_V3_INDEXES_URI")
    /\ epc' = "uri"
    /\ UNCHANGED <<env, SeerCrawlerLabel, retEnvErr>>
    /\ EnvFrame

\* if MOONSTREAM_DB_V3_INDEXES_URI == "" { return fmt.Errorf(...) }
URIRequired ==
    /\ epc = "uri"
    /\ MOONSTREAM_DB_V3_INDEXES_URI = ""
    /\ retEnvErr' = Required("MOONSTREAM_DB_V3_INDEXES_URI")
    /\ epc' = "returned"
    /\ UNCHANGED <<env, SeerCrawlerLabel, MOONSTREAM_DB_V3_INDEXES_URI>>
    /\ EnvFrame

\* return nil
CheckReturnNil ==
    /\ epc = "uri"
    /\ MOONSTREAM_DB_V3_INDEXES_URI # ""
    /\ retEnvErr' = NoError
    /\ epc' = "returned"
    /\ UNCHANGED <<env, SeerCrawlerLabel, MOONSTREAM_DB_V3_INDEXES_URI>>
    /\ EnvFrame

(***************************************************************************)
(* DecodeProtoEventsToLabels and DecodeProtoTransactionsToLabels           *)
(*                                                                         *)
(* A persisted record is a base64 string; it is described by what decoding *)
(* it gives: base64.DecodeString fails, proto.Unmarshal fails, or a record.*)
(***************************************************************************)
HexDigits == {"0", "1", "2", "3", "4", "5", "6", "7", "8", "9",
              "a", "b", "c", "d", "e", "f", "A", "B", "C", "D", "E", "F"}

CrawlerLabel == "seer"

\* abiMap[address][selector] = {"abi": ..., "abi_name": ...}
AbiEntries ==
    { [address |-> "0xaaa", selector |-> TransferSelector,
       abi |-> "[transfer(address,uint256)]", abi_name |-> "transfer"],
      [address |-> "0xaaa", selector |-> TransferTopic,
       abi |-> "[Transfer(address,address,uint256)]", abi_name |-> "Transfer"] }

\* abiMap[address][selector][field]: a missing key at any level gives "".
AbiField(address, selector, field) ==
    IF \E e \in AbiEntries : e.address = address /\ e.selector = selector
    THEN (CHOOSE e \in AbiEntries : e.address = address /\ e.selector = selector)[field]
    ELSE ""

\* abi.JSON(strings.NewReader(text)): the JSON decoder reports EOF on an empty
\* reader.
AbiJSON(text) ==
    IF text = "" THEN [err |-> <<"EOF">>, abi |-> ""]
    ELSE [err |-> NoError, abi |-> text]

\* hex.DecodeString: an odd length or a character that is no hex digit fails.
HexDecodeError(s) ==
    IF \E i \in 1..Len(s) : s[i] \notin HexDigits
    THEN <<"encoding/hex:", "invalid", "byte">>
    ELSE IF Len(s) % 2 = 1 THEN <<"encoding/hex:", "odd", "length", "hex", "string">>
    ELSE NoError

\* seer_common.DecodeTransactionInputDataToInterface and
\* seer_common.DecodeLogArgsToLabelData: the ABI decoding of the bytes that
\* follow the selector (of the topics and data), which either conform to the
\* ABI fragment or do not.
AbiDecode(abi, args) ==
    IF args = "wellformed"
    THEN [err |-> NoError, data |-> <<"json", abi>>]
    ELSE [err |-> <<"abi:", "cannot", "unmarshal">>, data |-> <<>>]

\* blocksCache map[uint64]uint64: block number -> block timestamp; a missing
\* key gives 0.
LabelCacheBlocks == {1}

CacheTimestamp(n) == IF n \in LabelCacheBlocks THEN 1000 + n ELSE 0

LabelInputs ==
    {Prefix(TransferCall, n) : n \in {2, 10, 11, 12}} \cup {Prefix(ApproveCall, 12)}

TransactionRecords ==
    { [ Hash |-> <<"txhash", 1>>,
        BlockNumber |-> n,
        BlockHash |-> BlockHashOf(n),
        FromAddress |-> "0xfff",
        ToAddress |-> to,
        Input |-> input,
        Args |-> args ] :
      n \in {1, 2}, to \in {"0xaaa", "0xbbb"}, input \in LabelInputs,
      args \in {"wellformed", "malformed"} }

EventRecords ==
    { [ Address |-> address,
        Topics |-> topics,
        Args |-> args,
        BlockNumber |-> n,
        BlockHash |-> BlockHashOf(n),
        TransactionHash |-> <<"txhash", 1>>,
        LogIndex |-> 7 ] :
      address \in {"0xaaa", "0xbbb"},
      topics \in {<<>>, <<TransferTopic>>, <<UnknownTopic>>,
                  <<TransferTopic, UnknownTopic>>},
      args \in {"wellformed", "malformed"},
      n \in {1, 2} }

Persisted(records) ==
    [kind : {"ok"}, record : records]
    \cup [kind : {"badbase64", "badproto"}, record : {CHOOSE r \in records : TRUE}]

DecodeError(d) ==
    IF d.kind = "badbase64" THEN <<"illegal", "base64", "data">>
    ELSE IF d.kind = "badproto" THEN <<"proto:", "cannot", "parse">>
    ELSE NoError

LabelsIdle ==
    /\ lOp = "none" /\ lData = <<>> /\ decoded = <<>> /\ lNext = 0
    /\ labels = <<>> /\ lbpc = "idle" /\ retLabels = <<>> /\ retLErr = NoError

LabelsInit ==
    /\ lOp \in {"events", "transactions"}
    /\ \E n \in 0..MaxRecords :
          lData \in [1..n -> Persisted(IF lOp = "events" THEN EventRecords
                                       ELSE TransactionRecords)]
    /\ decoded = <<>>
    /\ lNext = 0
    /\ labels = <<>>
    /\ lbpc = "decode"
    /\ retLabels = <<>>
    /\ retLErr = NoError

LabelsFrame == UNCHANGED <<logVars, asyncVars, protoVars, seqVars, hexVars, envVars>>

\* DecodeProtoEventLogs / DecodeProtoTransactions: the first string that does
\* not decode ends the call with nil, err.
DecodeRecordsFail ==
    /\ lbpc = "decode"
    /\ \E i \in 1..Len(lData) :
        /\ DecodeError(lData[i]) # NoError
        /\ \A j \in 1..(i - 1) : DecodeError(lData[j]) = NoError
        /\ retLErr' = DecodeError(lData[i])
    /\ retLabels' = <<>>
    /\ lbpc' = "returned"
    /\ UNCHANGED <<lOp, lData, decoded, lNext, labels>>
    /\ LabelsFrame

DecodeRecordsOk ==
    /\ lbpc = "decode"
    /\ \A i \in 1..Len(lData) : DecodeError(lData[i]) = NoError
    /\ decoded' = [i \in 1..Len(lData) |-> lData[i].record]
    /\ lbpc' = "loop"
    /\ UNCHANGED <<lOp, lData, lNext, labels, retLabels, retLErr>>
    /\ LabelsFrame

\* The record the range loop is at.
Current == decoded[lNext + 1]

InLoop(op) == lOp = op /\ lbpc = "loop" /\ lNext < Len(decoded)

\* return nil, err
ReturnError(err) ==
    /\ retLErr' = err
    /\ retLabels' = <<>>
    /\ lbpc' = "returned"
    /\ UNCHANGED <<lOp, lData, decoded, lNext, labels>>
    /\ LabelsFrame

\* labels = append(labels, label)
EmitLabel(label) ==
    /\ labels' = Append(labels, label)
    /\ lNext' = lNext + 1
    /\ UNCHANGED <<lOp, lData, decoded, lbpc, retLabels, retLErr>>
    /\ LabelsFrame

\* transaction.Input[:10] is evaluated only when the input has 10 characters.
CanSliceSelector(input) == Len(input) >= 10

TxSelector(input) == SubSeq(input, 1, 10)

TxAbi(t) == AbiJSON(AbiField(t.ToAddress, TxSelector(t.Input), "abi"))

TransactionLabelFromTo(t, data) ==
    [ Address |-> t.ToAddress,
      BlockNumber |-> t.BlockNumber,
      BlockHash |-> t.BlockHash,
      CallerAddress |-> t.ToAddress,
      LabelName |-> AbiField(t.ToAddress, TxSelector(t.Input), "abi_name"),
      LabelType |-> "tx_call",
      OriginAddress |-> t.FromAddress,
      Label |-> CrawlerLabel,
      TransactionHash |-> t.Hash,
      LabelData |-> data,
      BlockTimestamp |-> CacheTimestamp(t.BlockNumber) ]

TransactionLabelOf(t, data) ==
    [ Address |-> t.ToAddress,
      BlockNumber |-> t.BlockNumber,
      BlockHash |-> t.BlockHash,
      CallerAddress |-> t.FromAddress,
      LabelName |-> AbiField(t.ToAddress, TxSelector(t.Input), "abi_name"),
      LabelType |-> "tx_call",
      OriginAddress |-> t.FromAddress,
      Label |-> CrawlerLabel,
      TransactionHash |-> t.Hash,
      LabelData |-> data,
      BlockTimestamp |-> CacheTimestamp(t.BlockNumber) ]

\* selector := transaction.Input[:10] on an input of fewer than 10 characters:
\* slice bounds out of range, a run-time panic.
TxSlicePanic ==
    /\ InLoop("transactions")
    /\ ~CanSliceSelector(Current.Input)
    /\ lbpc' = "panic"
    /\ UNCHANGED <<lOp, lData, decoded, lNext, labels, retLabels, retLErr>>
    /\ LabelsFrame

TxAbiError ==
    /\ InLoop("transactions")
    /\ CanSliceSelector(Current.Input)
    /\ TxAbi(Current).err # NoError
    /\ ReturnError(TxAbi(Current).err)

TxHexError ==
    /\ InLoop("transactions")
    /\ CanSliceSelector(Current.Input)
    /\ TxAbi(Current).err = NoError
    /\ HexDecodeError(SubSeq(Current.Input, 3, Len(Current.Input))) # NoError
    /\ ReturnError(HexDecodeError(SubSeq(Current.Input, 3, Len(Current.Input))))

TxDecodeError ==
    /\ InLoop("transactions")
    /\ CanSliceSelector(Current.Input)
    /\ TxAbi(Current).err = NoError
    /\ HexDecodeError(SubSeq(Current.Input, 3, Len(Current.Input))) = NoError
    /\ AbiDecode(TxAbi(Current).abi, Current.Args).err # NoError
    /\ ReturnError(AbiDecode(TxAbi(Current).abi, Current.Args).err)

TxLabel ==
    /\ InLoop("transactions")
    /\ CanSliceSelector(Current.Input)
    /\ TxAbi(Current).err = NoError
    /\ HexDecodeError(SubSeq(Current.Input, 3, Len(Current.Input))) = NoError
    /\ AbiDecode(TxAbi(Current).abi, Current.Args).err = NoError
    /\ EmitLabel(TransactionLabelOf(Current,
                    AbiDecode(TxAbi(Current).abi, Current.Args).data))

EventAbi(e) == AbiJSON(AbiField(e.Address, e.Topics[1], "abi"))

EventLabelOf(e, data) ==
    [ Label |-> CrawlerLabel,
      LabelName |-> AbiField(e.Address, e.Topics[1], "abi_name"),
      LabelType |-> "event",
      BlockNumber |-> e.BlockNumber,
      BlockHash |-> e.BlockHash,
      Address |-> e.Address,
      TransactionHash |-> e.TransactionHash,
      LabelData |-> data,
      BlockTimestamp |-> CacheTimestamp(e.BlockNumber),
      LogIndex |-> e.LogIndex ]

\* len(event.Topics) == 0: continue
EventSkip ==
    /\ InLoop("events")
    /\ Len(Current.Topics) = 0
    /\ lNext' = lNext + 1
    /\ UNCHANGED <<lOp, lData, decoded, labels, lbpc, retLabels, retLErr>>
    /\ LabelsFrame

EventAbiError ==
    /\ InLoop("events")
    /\ Len(Current.Topics) > 0
    /\ EventAbi(Current).err # NoError
    /\ ReturnError(EventAbi(Current).err)

EventDecodeError ==
    /\ InLoop("events")
    /\ Len(Current.Topics) > 0
    /\ EventAbi(Current).err = NoError
    /\ AbiDecode(EventAbi(Current).abi, Current.Args).err # NoError
    /\ ReturnError(AbiDecode(EventAbi(Current).abi, Current.Args).err)

EventLabel ==
    /\ InLoop("events")
    /\ Len(Current.Topics) > 0
    /\ EventAbi(Current).err = NoError
    /\ AbiDecode(EventAbi(Current).abi, Current.Args).err = NoError
    /\ EmitLabel(EventLabelOf(Current,
                    AbiDecode(EventAbi(Current).abi, Current.Args).data))

\* return labels, nil
LabelsReturn ==
    /\ lbpc = "loop"
    /\ lNext = Len(decoded)
    /\ retLabels' = labels
    /\ retLErr' = NoError
    /\ lbpc' = "returned"
    /\ UNCHANGED <<lOp, lData, decoded, lNext, labels>>
    /\ LabelsFrame

(***************************************************************************)
(* ParseBlocksAndTransactions (choice of the fetcher) and FetchBlocksInRange*)
(***************************************************************************)
SeqIdle ==
    /\ sFrom = 1 /\ sTo = 0 /\ sMax = 1 /\ path = "none" /\ sI = 0
    /\ sReqs = <<>> /\ sBlocks = <<>> /\ spc = "idle"
    /\ retSBlocks = <<>> /\ retSErr = NoError

SeqInit ==
    /\ sFrom \in 1..MaxABlock
    /\ sTo \in 0..MaxABlock
    /\ sMax \in 0..MaxReq
    /\ path = "none"
    /\ sI = 0
    /\ sReqs = <<>>
    /\ sBlocks = <<>>
    /\ spc = "dispatch"
    /\ retSBlocks = <<>>
    /\ retSErr = NoError

SeqFrame == UNCHANGED <<logVars, asyncVars, protoVars, labelVars, hexVars, envVars>>

UseAsyncFromOne(n) == n >= 1

\* if maxRequests > 1 { FetchBlocksInRangeAsync } else { FetchBlocksInRange }
UseAsync(n) == n > 1

\* The loop test i.Cmp(to) <= 0 at value i: the next request, or return blocks, nil.
SeqLoop(i) ==
    IF i <= sTo
    THEN /\ spc' = "call1"
         /\ sReqs' = Append(sReqs, i)
         /\ UNCHANGED <<retSBlocks, retSErr>>
    ELSE /\ spc' = "returned"
         /\ retSBlocks' = sBlocks'
         /\ retSErr' = NoError
         /\ UNCHANGED sReqs

\* ParseBlocksAndTransactions chooses the fetcher; the sequential one starts
\* with i := new(big.Int).Set(from).
Dispatch ==
    /\ spc = "dispatch"
    /\ UNCHANGED <<sFrom, sTo, sMax, sBlocks>>
    /\ IF UseAsync(sMax)
       THEN /\ path' = "async"
            /\ spc' = "async"
            /\ UNCHANGED <<sI, sReqs, retSBlocks, retSErr>>
       ELSE /\ path' = "sequential"
            /\ sI' = sFrom
            /\ SeqLoop(sFrom)
    /\ SeqFrame

CallerFromShared(p, i) == i

\* The caller's from once i.Add(i, 1) has given i: fetchBlocks iterates on the
\* caller's number itself (i := from), FetchBlocksInRange on a copy
\* (i := new(big.Int).Set(from)).
CallerFrom(p, i) == IF p = "fetchBlocks" THEN i ELSE sFrom

\* fetchBlocks called on its own: i := from, then the loop test.
FetchBlocksEnter ==
    /\ spc = "fetchBlocks"
    /\ path' = "fetchBlocks"
    /\ sI' = sFrom
    /\ UNCHANGED <<sFrom, sTo, sMax, sBlocks>>
    /\ SeqLoop(sFrom)
    /\ SeqFrame

SeqCall1Single ==
    /\ spc = "call1"
    /\ \E ok \in BOOLEAN :
          IF ok
          THEN /\ sBlocks' = Append(sBlocks, sI)
               /\ sI' = sI + 1
               /\ sFrom' = CallerFrom(path, sI + 1)
               /\ SeqLoop(sI + 1)
          ELSE /\ spc' = "returned"
               /\ retSBlocks' = <<>>
               /\ retSErr' = RpcError(sI, 1)
               /\ UNCHANGED <<sFrom, sI, sReqs, sBlocks>>
    /\ UNCHANGED <<sTo, sMax, path>>
    /\ SeqFrame

\* GetBlockByNumber, first request: an error is returned at once, by
\* GetBlockByNumber and by the fetcher (return nil, err).
SeqCall1 ==
    /\ spc = "call1"
    /\ \E ok \in BOOLEAN :
          IF ok
          THEN /\ spc' = "call2"
               /\ sReqs' = Append(sReqs, sI)
               /\ UNCHANGED <<retSBlocks, retSErr>>
          ELSE /\ spc' = "returned"
               /\ retSBlocks' = <<>>
               /\ retSErr' = RpcError(sI, 1)
               /\ UNCHANGED sReqs
    /\ UNCHANGED <<sFrom, sTo, sMax, path, sI, sBlocks>>
    /\ SeqFrame

\* GetBlockByNumber, second request: its block and error are returned; on
\* success the block is appended and i.Add(i, 1) leads to the loop test.
SeqCall2 ==
    /\ spc = "call2"
    /\ \E ok \in BOOLEAN :
          IF ok
          THEN /\ sBlocks' = Append(sBlocks, sI)
               /\ sI' = sI + 1
               /\ sFrom' = CallerFrom(path, sI + 1)
               /\ SeqLoop(sI + 1)
          ELSE /\ spc' = "returned"
               /\ retSBlocks' = <<>>
               /\ retSErr' = RpcError(sI, 2)
               /\ UNCHANGED <<sFrom, sI, sReqs, sBlocks>>
    /\ UNCHANGED <<sTo, sMax, path>>
    /\ SeqFrame

(***************************************************************************)
(* Specifications                                                          *)
(***************************************************************************)
InitLogs == LogsInit /\ AsyncIdle /\ ProtoIdle /\ LabelsIdle /\ SeqIdle /\ HexIdle /\ EnvIdle
NextLogs == FilterLogsOk \/ FilterLogsNarrow \/ FilterLogsSkip \/ FilterLogsFail
SpecLogs == InitLogs /\ [][NextLogs]_vars

\* ClientFilterLogs is one sequential loop: while it has not returned it takes
\* its next step.
SpecLogsLive == SpecLogs /\ WF_vars(NextLogs)

InitAsync == LogsIdle /\ AsyncInit /\ ProtoIdle /\ LabelsIdle /\ SeqIdle /\ HexIdle /\ EnvIdle
NextAsync ==
    \/ Spawn
    \/ WaitReturn
    \/ \E b \in ABlocks :
        \/ Acquire(b)
        \/ Call1Ok(b)
        \/ Call1Fail(b)
        \/ Call2Ok(b)
        \/ Call2Fail(b)
        \/ Report(b)
        \/ Lock(b)
        \/ AppendLocked(b)
        \/ Unlock(b)
        \/ Release(b)
SpecAsync == InitAsync /\ [][NextAsync]_vars

InitLabels == LogsIdle /\ AsyncIdle /\ ProtoIdle /\ LabelsInit /\ SeqIdle /\ HexIdle /\ EnvIdle
NextLabels ==
    \/ DecodeRecordsFail
    \/ DecodeRecordsOk
    \/ TxSlicePanic
    \/ TxAbiError
    \/ TxHexError
    \/ TxDecodeError
    \/ TxLabel
    \/ EventSkip
    \/ EventAbiError
    \/ EventDecodeError
    \/ EventLabel
    \/ LabelsReturn
SpecLabels == InitLabels /\ [][NextLabels]_vars

InitS4 == LogsIdle /\ AsyncInitS4 /\ ProtoIdle /\ LabelsIdle /\ SeqIdle /\ HexIdle /\ EnvIdle
SpecS4 == InitS4 /\ [][NextAsync]_vars

InitSeq == LogsIdle /\ AsyncIdle /\ ProtoIdle /\ LabelsIdle /\ SeqInit /\ HexIdle /\ EnvIdle
NextSeq ==
    \/ Dispatch
    \/ SeqCall1
    \/ SeqCall2
SpecSeq == InitSeq /\ [][NextSeq]_vars

InitHex == LogsIdle /\ AsyncIdle /\ ProtoIdle /\ LabelsIdle /\ SeqIdle /\ HexInit /\ EnvIdle
NextHex == ToHexCall \/ FromHexCall
SpecHex == InitHex /\ [][NextHex]_vars

InitProto == LogsIdle /\ AsyncIdle /\ ProtoInit /\ LabelsIdle /\ SeqIdle /\ HexIdle /\ EnvIdle
NextProto ==
    \/ ParseBlock
    \/ ProtoAdvance
    \/ IndexBlock
    \/ IndexTransaction
    \/ IndexEvent
    \/ ProtoReturn
SpecProto == InitProto /\ [][NextProto]_vars

InitEnv == LogsIdle /\ AsyncIdle /\ ProtoIdle /\ LabelsIdle /\ SeqIdle /\ HexIdle /\ EnvInit
NextEnv ==
    \/ GetenvLabel
    \/ LabelRequired
    \/ GetenvURI
    \/ URIRequired
    \/ CheckReturnNil
SpecEnv == InitEnv /\ [][NextEnv]_vars

\* The operations that take a block range, each called on its own: the three
\* public ones and the private helper fetchBlocks.
InitRanges ==
    \/ InitLogs
    \/ InitAsync
    \/ InitSeq
    \/ /\ LogsIdle /\ AsyncIdle /\ ProtoIdle /\ LabelsIdle /\ HexIdle /\ EnvIdle
       /\ sFrom \in 1..MaxABlock
       /\ sTo \in 0..MaxABlock
       /\ sMax = 0
       /\ path = "none"
       /\ sI = 0
       /\ sReqs = <<>>
       /\ sBlocks = <<>>
       /\ spc = "fetchBlocks"
       /\ retSBlocks = <<>>
       /\ retSErr = NoError
NextRanges ==
    \/ FilterLogsOk
    \/ FilterLogsNarrow
    \/ FilterLogsSkip
    \/ FilterLogsFail
    \/ Dispatch
    \/ FetchBlocksEnter
    \/ SeqCall1
    \/ SeqCall2
    \/ Spawn
    \/ WaitReturn
    \/ \E b \in ABlocks :
        \/ Acquire(b)
        \/ Call1Ok(b)
        \/ Call1Fail(b)
        \/ Call2Ok(b)
        \/ Call2Fail(b)
        \/ Report(b)
        \/ Lock(b)
        \/ AppendLocked(b)
        \/ Unlock(b)
        \/ Release(b)
SpecRanges == InitRanges /\ [][NextRanges]_vars

\* The three operations that read a block cache, each called on its own.
InitCache == InitProto \/ InitLabels
NextCache ==
    \/ ParseBlock
    \/ ProtoAdvance
    \/ IndexBlock
    \/ IndexTransaction
    \/ IndexEvent
    \/ ProtoReturn
    \/ DecodeRecordsFail
    \/ DecodeRecordsOk
    \/ TxSlicePanic
    \/ TxAbiError
    \/ TxHexError
    \/ TxDecodeError
    \/ TxLabel
    \/ EventSkip
    \/ EventAbiError
    \/ EventDecodeError
    \/ EventLabel
    \/ LabelsReturn
SpecCache == InitCache /\ [][NextCache]_vars

(***************************************************************************)
(* Properties                                                              *)
(***************************************************************************)
LastCall == calls[Len(calls)]

BlocksWithLogs(ls) == {ls[i][1] : i \in 1..Len(ls)}

\* C1: against a server that refuses exactly the windows of more than K
\* blocks (K >= 1), a ClientFilterLogs run over from <= to ends with a nil
\* error and exactly the logs of [from, to], each once, in (block, log index)
\* order.
C1_CappedServerAllLogs ==
    (lpc = "returned" /\ server.mode = "cap" /\ qFrom <= qTo)
        => (retErr = NoError /\ retLogs = WindowLogs(qFrom, qTo))

\* C2: FetchBlocksInRangeAsync always returns: in no reachable state is the
\* function short of its return with no step left to take (a goroutine blocked
\* for ever on the semaphore, wg.Wait() never released).
C2_AsyncAlwaysReturns == mpc = "returned" \/ ENABLED NextAsync

\* C3: at most maxRequests goroutines are between acquiring the semaphore and
\* the end of their GetBlockByNumber call.
C3_AtMostNInFlight == Cardinality(InFlight) <= maxRequests

C3_Witness ==
    /\ maxRequests >= 2
    /\ Cardinality(InFlight) = maxRequests
    /\ \E b \in ABlocks : tpc[b] = "acquire"

\* C4: while no fetch has failed the function is never stuck short of its
\* return, and when it returns with no failed fetch it returns a nil error and
\* a sequence of to - from + 1 blocks holding every block number of [from, to]
\* exactly once.
C4_AllSucceedReturnsRange ==
    /\ (mpc = "run" /\ failedLog = {}) => ENABLED NextAsync
    /\ (mpc = "returned" /\ failedLog = {})
        => /\ retAErr = NoError
           /\ Len(retBlocks) = RangeLen
           /\ \A b \in BlockRange :
                Cardinality({i \in 1..Len(retBlocks) : retBlocks[i] = b}) = 1

C4_Witness ==
    /\ mpc = "returned"
    /\ failedLog = {}
    /\ Len(retBlocks) >= 3
    /\ retBlocks[1] > retBlocks[2]

\* C5: a failing goroutine can always take its reporting step; the first error
\* offered to errChan is stored and stays there until the function returns,
\* later ones are dropped; and a return after a failure hands back that stored
\* error with a nil block slice.
C5_FirstErrorWins ==
    /\ [](\A b \in ABlocks : tpc[b] = "report" => ENABLED Report(b))
    /\ [][ /\ \A b \in ABlocks :
                (tpc[b] = "report" /\ tpc'[b] = "done")
                    => errChan' = (IF errChan = <<>> THEN <<getErr[b]>> ELSE errChan)
           /\ (errChan # <<>> /\ mpc' = "run") => errChan' = errChan
           /\ (mpc = "run" /\ mpc' = "returned" /\ failedLog # {})
                    => /\ errChan # <<>>
                       /\ retAErr' = errChan[1]
                       /\ retBlocks' = <<>>
         ]_vars

C5_Witness ==
    /\ mpc = "returned"
    /\ Cardinality(failedLog) >= 2
    /\ blocks # <<>>
    /\ retBlocks = <<>>
    /\ retAErr # NoError

\* C6: scenario S3.  With a server that accepts windows of at most 4 blocks and
\* the request [100, 110], the eth_getLogs calls are [100,110] refused,
\* [100,105] refused, [100,102], [103,105], [106,108], [109,110] accepted, in
\* that order, and then the function returns.
Outcome(c) == <<c.fromBlock, c.toBlock, c.err = NoError>>

S3Calls ==
    << <<100, 110, FALSE>>, <<100, 105, FALSE>>, <<100, 102, TRUE>>,
       <<103, 105, TRUE>>, <<106, 108, TRUE>>, <<109, 110, TRUE>> >>

InScenarioS3 ==
    /\ qFrom = S3.from /\ qTo = S3.to
    /\ server.mode = "cap" /\ server.cap = S3.cap

C6_ScenarioS3 ==
    InScenarioS3 =>
        /\ Len(calls) <= Len(S3Calls)
        /\ \A i \in 1..Len(calls) : Outcome(calls[i]) = S3Calls[i]
        /\ (lpc = "returned") <=> (Len(calls) = Len(S3Calls))

C6_Witness == InScenarioS3 /\ lpc = "returned" /\ retErr = NoError

\* C7: after a successful run, every block of [from, to] whose logs are not in
\* the result was queried alone (fromBlock = toBlock = that block) and that
\* query failed with too many results.
C7_LossOnlyAtSingleBlock ==
    (lpc = "returned" /\ retErr = NoError /\ qFrom <= qTo)
        => \A b \in qFrom..qTo :
              b \notin BlocksWithLogs(retLogs)
                  => \E i \in 1..Len(calls) :
                        /\ calls[i].fromBlock = b
                        /\ calls[i].toBlock = b
                        /\ calls[i].err \in TooManyMessages

C9_OtherErrorAborts ==
    \A i \in 1..Len(calls) :
        calls[i].err \in OtherMessages
            => /\ i = Len(calls)
               /\ lpc = "returned"
               /\ retErr = calls[i].err
               /\ retLogs = <<>>

C9_Witness ==
    /\ lpc = "returned"
    /\ retErr \in OtherMessages
    /\ logs # <<>>
    /\ retLogs = <<>>

\* C10: the selector of a TransactionIndex row is "0x" when the input has fewer
\* than 10 characters and the first 10 characters of the input otherwise.
C10_SelectorRule ==
    \A i \in 1..Len(transactionIndex) :
        LET input == parsedTransactions[i].Input
        IN transactionIndex[i].Selector =
              (IF Len(input) < 10 THEN <<"0", "x">> ELSE SubSeq(input, 1, 10))

\* C11: DecodeProtoTransactionsToLabels never ends abnormally: whatever the
\* batch, inputs of fewer than 10 characters included, the call is never in a
\* panic, and it ends with one label per record or with an error and no label.
C11_TxLabelsNeverPanic ==
    lOp = "transactions" =>
        /\ lbpc # "panic"
        /\ lbpc = "returned" =>
              \/ retLErr = NoError /\ Len(retLabels) = Len(lData)
              \/ retLErr # NoError /\ retLabels = <<>>

\* C12 (as stated): the result order is the completion order: every append
\* adds the block whose fetch completed earliest among those not yet appended,
\* so that fetches completing in the order 5,4,3,2,1 give 5,4,3,2,1.
C12_CompletionOrder ==
    [][\A b \in ABlocks : AppendLocked(b) => b = Head(fetched)]_vars

\* C12 (amended): the result order is the order in which the goroutines take
\* the mutex after their fetch completed, not block-number order: every append
\* puts the block of the mutex holder, one whose fetch has completed, at the
\* end of the sequence; it is the earliest completed one whenever no other
\* completed fetch waits for the mutex; the returned sequence is the appended
\* one.
C12_AppendOrder ==
    /\ [][\A b \in ABlocks : AppendLocked(b) =>
            /\ mu = b
            /\ \E i \in 1..Len(fetched) : fetched[i] = b
            /\ blocks' = Append(blocks, b)
            /\ (Len(fetched) = 1 => b = Head(fetched))]_vars
    /\ []((mpc = "returned" /\ retAErr = NoError) => retBlocks = blocks)

\* Scenario S4 ends with the blocks in the order 5,4,3,2,1.
C12_Witness ==
    /\ aFrom = S4.from /\ aTo = S4.to /\ maxRequests = S4.maxRequests
    /\ mpc = "returned"
    /\ retAErr = NoError
    /\ retBlocks = <<5, 4, 3, 2, 1>>

\* C13: ParseBlocksAndTransactions fetches sequentially exactly when
\* maxRequests <= 1; FetchBlocksInRange requests from, from + 1, ..., to one
\* after the other in that order (each block number twice, by GetBlockByNumber),
\* returns the blocks in ascending order, and on the first failing block
\* returns that error with nil blocks, no later block being requested.
C13_SequentialPath ==
    /\ spc \notin {"idle", "dispatch"} =>
          /\ path = "sequential" <=> sMax <= 1
          /\ path = "async" <=> sMax > 1
    /\ path = "async" => sReqs = <<>>
    /\ \A k \in 1..Len(sReqs) :
          /\ sReqs[k] = sFrom + ((k - 1) \div 2)
          /\ sReqs[k] <= sTo
    /\ (spc = "returned" /\ retSErr = NoError) =>
          /\ Len(retSBlocks) = (IF sTo >= sFrom THEN sTo - sFrom + 1 ELSE 0)
          /\ \A k \in 1..Len(retSBlocks) : retSBlocks[k] = sFrom + k - 1
          /\ Len(sReqs) = 2 * Len(retSBlocks)
    /\ (spc = "returned" /\ retSErr # NoError) =>
          /\ retSBlocks = <<>>
          /\ retSErr \in {RpcError(sReqs[Len(sReqs)], n) : n \in {1, 2}}
          /\ \A k \in 1..Len(sReqs) : sReqs[k] <= sReqs[Len(sReqs)]
          /\ sBlocks = [k \in 1..(sReqs[Len(sReqs)] - sFrom) |-> sFrom + k - 1]

\* A sequential fetch of three or more blocks failed at its third block.
C13_Witness ==
    /\ path = "sequential"
    /\ spc = "returned"
    /\ retSErr # NoError
    /\ Len(sBlocks) = 2
    /\ sTo > sFrom + 2

RECURSIVE TxsBefore(_)
\* Number of transactions embedded in the fetched blocks in front of the i-th.
TxsBefore(i) ==
    IF i <= 1 THEN 0 ELSE TxsBefore(i - 1) + Len(blocksJson[i - 1].Transactions)

\* The (block number, block hash, block timestamp) a record or row carries.
TripleOf(r) == <<r.BlockNumber, r.BlockHash, r.BlockTimestamp>>

\* C14: row ids are positions: the BlockIndex row of the i-th fetched block,
\* the TransactionIndex row of the j-th transaction of the flattened sequence
\* (blocks in fetched order, transactions in their order inside each block)
\* and the LogIndex row of the k-th log have the 0-based row ids i, j and k;
\* every output sequence has the length and order of its input sequence.
C14_RowIdsArePositions ==
    /\ \A i \in 1..Len(blockIndex) :
          /\ blockIndex[i].RowID = i - 1
          /\ blockIndex[i].BlockHash = blocksJson[i].Hash
          /\ blocksProto[i] = parsedBlocks[i]
    /\ \A i \in 1..Len(parsedBlocks) :
          \A k \in 1..Len(blocksJson[i].Transactions) :
             parsedTransactions[TxsBefore(i) + k].Hash = blocksJson[i].Transactions[k].Hash
    /\ \A j \in 1..Len(transactionIndex) :
          /\ transactionIndex[j].RowID = j - 1
          /\ transactionIndex[j].TransactionHash = parsedTransactions[j].Hash
          /\ transactionsProto[j] = parsedTransactions[j]
    /\ \A k \in 1..Len(eventsIndex) :
          /\ eventsIndex[k].RowID = k - 1
          /\ eventsIndex[k].BlockNumber = parsedEvents[k].BlockNumber
          /\ eventsProto[k] = parsedEvents[k]
    /\ ppc = "returned" =>
          /\ Len(blockIndex) = Len(blocksJson)
          /\ Len(blocksProto) = Len(blocksJson)
          /\ Len(parsedTransactions) = TxsBefore(Len(blocksJson) + 1)
          /\ Len(transactionIndex) = Len(parsedTransactions)
          /\ Len(transactionsProto) = Len(parsedTransactions)
          /\ Len(eventsIndex) = Len(parsedEvents)
          /\ Len(eventsProto) = Len(parsedEvents)

\* A batch of two blocks fetched in descending order, each with transactions.
C14_Witness ==
    /\ pOp = "blocks"
    /\ ppc = "returned"
    /\ Len(blocksJson) = 2
    /\ parsedBlocks[1].BlockNumber > parsedBlocks[2].BlockNumber
    /\ Len(blocksJson[1].Transactions) = 2
    /\ Len(blocksJson[2].Transactions) >= 1
    /\ transactionIndex[3].RowID = 2

\* C15: for every block of a FetchAsProtoBlocks batch the block record, its
\* BlockIndex row, the BlockCache entry under its number and every transaction
\* record and TransactionIndex row derived from its embedded transactions
\* carry the same (block number, block hash, block timestamp).
C15_SameBlockTriple ==
    \A i \in 1..Len(parsedBlocks) :
        LET block == parsedBlocks[i]
            triple == <<block.BlockNumber, block.Hash, block.Timestamp>>
        IN /\ i <= Len(blockIndex) =>
                 /\ TripleOf(blockIndex[i]) = triple
                 /\ block.BlockNumber \in DOMAIN blocksCache
                 /\ TripleOf(blocksCache[block.BlockNumber]) = triple
           /\ \A k \in 1..Len(blocksJson[i].Transactions) :
                 LET j == TxsBefore(i) + k
                 IN /\ TripleOf(parsedTransactions[j]) = triple
                    /\ j <= Len(transactionIndex) =>
                          TripleOf(transactionIndex[j]) = triple

\* Two blocks with transactions have been normalised and indexed.
C15_Witness ==
    /\ pOp = "blocks"
    /\ ppc = "returned"
    /\ Len(blocksJson) = 2
    /\ \A i \in 1..2 : Len(blocksJson[i].Transactions) >= 1
    /\ parsedTransactions[1].BlockTimestamp # 0
    /\ transactionIndex[1].BlockTimestamp # transactionIndex[Len(transactionIndex)].BlockTimestamp

\* C16: for every log of FetchAsProtoEvents, selector is topics[0] when there
\* is at least 1 topic and null otherwise, topic1 is topics[1] when there are
\* at least 2 and null otherwise, topic2 is topics[2] when there are at least
\* 3 and null otherwise; a log without topics still has its LogIndex row.
C16_TopicsByCount ==
    /\ \A k \in 1..Len(eventsIndex) :
          LET topics == parsedEvents[k].Topics
              row == eventsIndex[k]
          IN /\ row.Selector = (IF Len(topics) >= 1 THEN <<topics[1]>> ELSE <<>>)
             /\ row.Topic1 = (IF Len(topics) >= 2 THEN <<topics[2]>> ELSE <<>>)
             /\ row.Topic2 = (IF Len(topics) >= 3 THEN <<topics[3]>> ELSE <<>>)
             /\ row.LogIndex = parsedEvents[k].LogIndex
    /\ (pOp = "events" /\ ppc = "returned") => Len(eventsIndex) = Len(parsedEvents)

\* A batch of a log without topics and a log with four topics has its rows.
C16_Witness ==
    /\ pOp = "events"
    /\ ppc = "returned"
    /\ Len(eventsIndex) = 2
    /\ parsedEvents[1].Topics = <<>>
    /\ Len(parsedEvents[2].Topics) = 4
    /\ eventsIndex[1].Selector = <<>>
    /\ eventsIndex[2].Topic2 # <<>>

\* The ABI table has no entry for the (address, topics[0]) of an event with
\* topics, or for the (to address, selector) of a transaction, the selector
\* being the first 10 characters of the input.
AbiMiss(r) ==
    IF lOp = "events"
    THEN /\ Len(r.Topics) > 0
         /\ ~\E e \in AbiEntries : e.address = r.Address /\ e.selector = r.Topics[1]
    ELSE ~\E e \in AbiEntries :
            e.address = r.ToAddress /\ e.selector = Prefix(r.Input, 10)

\* The records a label is due for: every transaction, every event with topics.
Labelled(records) ==
    SelectSeq(records, LAMBDA r : lOp = "transactions" \/ Len(r.Topics) > 0)

\* C17: label decoding preserves order and is all-or-nothing: a call ends by
\* returning; without error it returns one label per record in input order,
\* events without topics being skipped; when a record fails at a stage
\* (base64, binary decode, ABI lookup, ABI decode) the call returns the error
\* and a nil label slice, whatever the number of labels already built.
C17_OrderedAllOrNothing ==
    /\ lbpc # "panic"
    /\ lbpc = "returned" =>
        /\ retLErr = NoError =>
              /\ Len(retLabels) = Len(Labelled(decoded))
              /\ Len(decoded) = Len(lData)
              /\ \A i \in 1..Len(retLabels) :
                    LET r == Labelled(decoded)[i]
                    IN /\ retLabels[i].BlockNumber = r.BlockNumber
                       /\ retLabels[i].Address =
                             (IF lOp = "events" THEN r.Address ELSE r.ToAddress)
        /\ retLErr # NoError => retLabels = <<>>
        /\ (\/ \E i \in 1..Len(lData) : lData[i].kind # "ok"
            \/ \E i \in 1..Len(decoded) :
                  \/ AbiMiss(decoded[i])
                  \/ /\ lOp = "events" => Len(decoded[i].Topics) > 0
                     /\ decoded[i].Args = "malformed")
           => (retLErr # NoError /\ retLabels = <<>>)

\* C18: an ABI miss is fatal for the batch: no label is ever built for a
\* record without ABI entry (no label has an empty name or empty data), and a
\* call on a batch holding such a record ends by returning an error and no
\* labels.
C18_AbiMissIsFatal ==
    /\ \A i \in 1..Len(labels) :
          /\ labels[i].LabelName # ""
          /\ labels[i].LabelData # <<>>
          /\ ~AbiMiss(Labelled(decoded)[i])
    /\ (lbpc \in {"returned", "panic"} /\ \E i \in 1..Len(decoded) : AbiMiss(decoded[i])) =>
          /\ lbpc = "returned"
          /\ retLErr # NoError
          /\ retLabels = <<>>

\* The string without its optional 0x / 0X prefix.
Unprefixed(str) ==
    IF Len(str) >= 2 /\ str[1] = "0" /\ str[2] \in {"x", "X"}
    THEN SubSeq(str, 3, Len(str))
    ELSE str

IsHexDigit(c) == DigitValue(c) < 16

\* C19: fromHex rejects malformed input: for every string with a character
\* that is no hexadecimal digit (after the optional 0x / 0X prefix) the caller
\* is given a BadHex failure instead of a number.
C19_BadHexReported ==
    (hpc = "returned" /\ \E i \in 1..Len(Unprefixed(hIn)) : ~IsHexDigit(Unprefixed(hIn)[i]))
        => hFailure = "BadHex"

\* C20: the 0x prefix is optional: for every non-empty string s of hexadecimal
\* digits fromHex(s) = fromHex("0x" + s) = fromHex("0X" + s) = the value of s
\* read in base 16, and fromHex of the empty string is 0.
C20_PrefixOptional ==
    hpc = "returned" =>
        /\ hIn = <<>> => hOut = 0
        /\ (hIn # <<>> /\ \A i \in 1..Len(hIn) : IsHexDigit(hIn[i])) =>
              /\ hOut = ScanDigits(hIn, 1, 16, 0).val
              /\ FromHex(<<"0", "x">> \o hIn) = hOut
              /\ FromHex(<<"0", "X">> \o hIn) = hOut

\* C21: hex codec round trip: for every number n, toHex(n) is "0x" followed
\* by the lowercase hexadecimal digits of n without leading zeros and
\* fromHex(toHex(n)) = n; toHex(255) = "0xff", toHex(0) = "0x0",
\* fromHex("0x1a") = 26 and fromHex("0x00") = 0.
C21_HexRoundTrip ==
    /\ (hNum >= 0 /\ hpc \in {"call", "returned"}) =>
          /\ Len(hIn) >= 3
          /\ SubSeq(hIn, 1, 2) = <<"0", "x">>
          /\ hIn[3] = "0" => (hNum = 0 /\ Len(hIn) = 3)
          /\ \A i \in 3..Len(hIn) : \E d \in 1..16 : hIn[i] = LowerDigits[d]
          /\ ScanDigits(hIn, 3, 16, 0) = [val |-> hNum, next |-> Len(hIn) + 1]
          /\ hNum = 255 => hIn = <<"0", "x", "f", "f">>
          /\ hNum = 0 => hIn = <<"0", "x", "0">>
    /\ (hNum >= 0 /\ hpc = "returned") => hOut = hNum
    /\ (hpc = "returned" /\ hIn = <<"0", "x", "1", "a">>) => hOut = 26
    /\ (hpc = "returned" /\ hIn = <<"0", "x", "0", "0">>) => hOut = 0

\* The round trip of 255 through "0xff" is complete.
C21_Witness == hNum = 255 /\ hIn = <<"0", "x", "f", "f">> /\ hpc = "returned" /\ hOut = 255

\* C22: normalisation preserves values: every numeric field of the record
\* ToProtoSingleBlock makes of a block JSON equals fromHex of the hex string
\* of the JSON, values beyond the largest word included, and every string
\* field is the field of the JSON.
C22_ValuesPreserved ==
    \A i \in 1..Len(parsedBlocks) :
        LET J == blocksJson[i]
            block == parsedBlocks[i]
        IN /\ block.BlockNumber = FromHex(J.BlockNumber)
           /\ block.Difficulty = FromHex(J.Difficulty)
           /\ block.GasLimit = FromHex(J.GasLimit)
           /\ block.GasUsed = FromHex(J.GasUsed)
           /\ block.Size = FromHex(J.Size)
           /\ block.Timestamp = FromHex(J.Timestamp)
           /\ block.IndexedAt = FromHex(J.IndexedAt)
           /\ block.L1BlockNumber = FromHex(J.L1BlockNumber)
           /\ block.Hash = J.Hash
           /\ block.ParentHash = J.ParentHash
           /\ block.ExtraData = J.ExtraData

\* The blocks of the window of a call.
Window(c) == c.fromBlock..c.toBlock

\* The calls whose window was left for good: the successful ones and the
\* refused ones that were not tried again from the same fromBlock.
Settled ==
    {i \in 1..Len(calls) :
        \/ calls[i].err = NoError
        \/ i = Len(calls)
        \/ calls[i + 1].fromBlock # calls[i].fromBlock}

\* What C23 states but for the retry: windows inside the range, every window
\* that is no retry begins one past the previous one, the settled windows of a
\* return without error are disjoint and cover the range, logs ascend.
TilesRange ==
    /\ \A i \in 1..Len(calls) :
          /\ qFrom <= calls[i].fromBlock
          /\ calls[i].fromBlock <= calls[i].toBlock
          /\ calls[i].toBlock <= qTo
    /\ Len(calls) >= 1 => calls[1].fromBlock = qFrom
    /\ \A i \in 2..Len(calls) :
          \/ calls[i].fromBlock = calls[i - 1].toBlock + 1
          \/ /\ calls[i - 1].err # NoError
             /\ calls[i].fromBlock = calls[i - 1].fromBlock
    /\ \A i \in 2..Len(calls) :
          calls[i - 1].err = NoError => calls[i].fromBlock = calls[i - 1].toBlock + 1
    /\ (lpc = "returned" /\ retErr = NoError) =>
          /\ \A i, j \in Settled : i # j => Window(calls[i]) \cap Window(calls[j]) = {}
          /\ UNION {Window(calls[i]) : i \in Settled} = qFrom..qTo
    /\ \A i, j \in 1..Len(logs) : i < j => logs[i][1] <= logs[j][1]

\* C23 (as amended): for from <= to the windows of a run ascend and tile the
\* range, and a retry after too many results keeps fromBlock and never has a
\* larger toBlock: it has a smaller one, or the same one when the window was
\* already clipped to the end of the range.
C23_WindowsTile ==
    qFrom <= qTo =>
        /\ TilesRange
        /\ \A i \in 2..Len(calls) :
              calls[i].fromBlock = calls[i - 1].fromBlock =>
                  /\ calls[i - 1].err # NoError
                  /\ calls[i].toBlock <= calls[i - 1].toBlock
                  /\ calls[i].toBlock = calls[i - 1].toBlock => calls[i].toBlock = qTo

\* C23 (as stated): the same, with every retry after too many results
\* shrinking toBlock.
C23_RetryShrinks ==
    qFrom <= qTo =>
        /\ TilesRange
        /\ \A i \in 2..Len(calls) :
              calls[i].fromBlock = calls[i - 1].fromBlock =>
                  calls[i].toBlock < calls[i - 1].toBlock

\* A run over [0, 4] returned after a success, a retry of the unchanged window
\* [3, 4] and its skip.
C23_Witness ==
    /\ qFrom = 0 /\ qTo = 4
    /\ lpc = "returned" /\ retErr = NoError
    /\ Len(calls) = 4
    /\ Outcome(calls[2]) = <<0, 2, TRUE>>
    /\ Outcome(calls[3]) = <<3, 4, FALSE>>
    /\ Outcome(calls[4]) = <<3, 4, FALSE>>

\* A record of the label decoders that fails for a reason of its own: no ABI
\* entry, arguments that do not decode, or (transactions) an input that is too
\* short or no hexadecimal string.
FaultyRecord(r) ==
    \/ AbiMiss(r)
    \/ r.Args = "malformed"
    \/ /\ lOp = "transactions"
       /\ \/ ~CanSliceSelector(r.Input)
          \/ HexDecodeError(SubSeq(r.Input, 3, Len(r.Input))) # NoError

\* C24: a block missing from the cache never fails a batch.  FetchAsProtoEvents
\* gives each row the cached timestamp of its block number, 0 when the cache
\* has no entry, and returns one row per event; the label decoders give each
\* label the cached timestamp or 0 likewise, every record passed by the loop
\* that is due a label has one, and a call that ends otherwise than by
\* returning its labels ends at a record that is faulty in itself or at a
\* string that does not decode.
C24_CacheMissGivesZero ==
    /\ Len(eventsIndex) <= Len(parsedEvents)
    /\ \A i \in 1..Len(eventsIndex) :
          LET n == parsedEvents[i].BlockNumber
          IN /\ eventsIndex[i].BlockNumber = n
             /\ n \in DOMAIN blocksCache =>
                   eventsIndex[i].BlockTimestamp = blocksCache[n].BlockTimestamp
             /\ n \notin DOMAIN blocksCache => eventsIndex[i].BlockTimestamp = 0
    /\ (pOp = "events" /\ ppc = "returned") => Len(eventsIndex) = Len(parsedEvents)
    /\ Len(labels) = Len(Labelled(SubSeq(decoded, 1, lNext)))
    /\ \A i \in 1..Len(labels) :
          LET n == Labelled(decoded)[i].BlockNumber
          IN /\ labels[i].BlockNumber = n
             /\ n \in LabelCacheBlocks => labels[i].BlockTimestamp = 1000 + n
             /\ n \notin LabelCacheBlocks => labels[i].BlockTimestamp = 0
    /\ (lbpc = "returned" /\ retLErr = NoError) => retLabels = labels
    /\ (lbpc = "panic" \/ (lbpc = "returned" /\ retLErr # NoError)) =>
          IF decoded = <<>>
          THEN \E i \in 1..Len(lData) : DecodeError(lData[i]) # NoError
          ELSE FaultyRecord(decoded[lNext + 1])

\* DecodeProtoTransactionsToLabels returned two labels, the first of a block
\* the cache knows, the second of a block it does not know.
C24_Witness ==
    /\ lOp = "transactions"
    /\ lbpc = "returned"
    /\ retLErr = NoError
    /\ Len(retLabels) = 2
    /\ retLabels[1].BlockNumber = 1 /\ retLabels[1].BlockTimestamp = 1001
    /\ retLabels[2].BlockNumber = 2 /\ retLabels[2].BlockTimestamp = 0

\* C25: every label of DecodeProtoTransactionsToLabels has type "tx_call", the
\* to address as address, the from address as caller and as origin address, and
\* the block number, block hash and hash of the transaction; every label of
\* DecodeProtoEventsToLabels has type "event" and the address, block number,
\* block hash, transaction hash and log index of the event log; both carry the
\* process-wide label string.
C25_LabelFieldsCopied ==
    \A i \in 1..Len(labels) :
        LET r == Labelled(decoded)[i]
            label == labels[i]
        IN /\ label.Label = CrawlerLabel
           /\ label.BlockNumber = r.BlockNumber
           /\ label.BlockHash = r.BlockHash
           /\ IF lOp = "transactions"
              THEN /\ label.LabelType = "tx_call"
                   /\ label.Address = r.ToAddress
                   /\ label.CallerAddress = r.FromAddress
                   /\ label.OriginAddress = r.FromAddress
                   /\ label.TransactionHash = r.Hash
                   /\ DOMAIN label = {"Address", "BlockNumber", "BlockHash",
                         "CallerAddress", "LabelName", "LabelType", "OriginAddress",
                         "Label", "TransactionHash", "LabelData", "BlockTimestamp"}
              ELSE /\ label.LabelType = "event"
                   /\ label.Address = r.Address
                   /\ label.TransactionHash = r.TransactionHash
                   /\ label.LogIndex = r.LogIndex
                   /\ DOMAIN label = {"Label", "LabelName", "LabelType", "BlockNumber",
                         "BlockHash", "Address", "TransactionHash", "LabelData",
                         "BlockTimestamp", "LogIndex"}

\* Two transaction labels have been returned, the first of block 2.
C25_Witness ==
    /\ lOp = "transactions"
    /\ lbpc = "returned"
    /\ retLErr = NoError
    /\ Len(retLabels) = 2
    /\ retLabels[1].BlockNumber = 2
    /\ retLabels[1].BlockHash = BlockHashOf(2)
    /\ retLabels[2].CallerAddress = "0xfff"
    /\ retLabels[2].Address = "0xaaa"

\* A variable of the environment is unset or empty.
Missing(name) == name \notin DOMAIN env \/ env[name] = ""

\* C26: CheckVariablesForIndexer returns an error if and only if
\* SEER_CRAWLER_INDEXER_LABEL or MOONSTREAM_DB_V3_INDEXES_URI is unset or
\* empty; when it returns nil the two package variables hold the two values of
\* the environment, both non-empty.
C26_StartupCheck ==
    epc = "returned" =>
        /\ retEnvErr # NoError <=>
              (Missing("SEER_CRAWLER_INDEXER_LABEL") \/ Missing("MOONSTREAM_DB_V3_INDEXES_URI"))
        /\ retEnvErr = NoError =>
              /\ EnvNames \subseteq DOMAIN env
              /\ SeerCrawlerLabel = env["SEER_CRAWLER_INDEXER_LABEL"]
              /\ MOONSTREAM_DB_V3_INDEXES_URI = env["MOONSTREAM_DB_V3_INDEXES_URI"]
              /\ SeerCrawlerLabel # ""
              /\ MOONSTREAM_DB_V3_INDEXES_URI # ""

\* The check passed with both variables set.
C26_Witness ==
    /\ epc = "returned"
    /\ retEnvErr = NoError
    /\ SeerCrawlerLabel = "seer"
    /\ MOONSTREAM_DB_V3_INDEXES_URI = "postgres://indexes"

\* One eth_getLogs call of a run: the run returns, or the cursor moves one past
\* the window that was queried, or the cursor stays and the step decreases,
\* remaining at least 1.
CallProgress ==
    \/ lpc' = "returned"
    \/ fromBlock' = NextBlock + 1 /\ fromBlock' <= qTo
    \/ fromBlock' = fromBlock /\ batchStep' < batchStep /\ batchStep' >= 1

\* C27: ClientFilterLogs terminates: for every from <= to and every answer
\* pattern of the server the loop ends after finitely many calls, because each
\* call advances the cursor past the queried window or strictly decreases the
\* step; the same window is not re-queried for ever.
C27_Terminates ==
    /\ [][(qFrom <= qTo) => CallProgress]_vars
    /\ (qFrom <= qTo) => <>(lpc = "returned")

\* A run over several blocks has returned after four calls, the last two for
\* the same window: refused, then answered.
C27_Witness ==
    /\ qFrom < qTo
    /\ lpc = "returned"
    /\ retErr = NoError
    /\ Len(calls) = 4
    /\ Window(calls[4]) = Window(calls[3])
    /\ calls[3].err # NoError
    /\ calls[4].err = NoError

C29_DegenerateRanges ==
    qFrom >= qTo =>
        /\ Len(calls) <= 1
        /\ calls = <<>> <=> lpc = "loop"
        /\ qFrom = qTo => batchStep = 0
        /\ lpc = "returned" =>
              /\ calls[1].fromBlock = qFrom
              /\ calls[1].toBlock = qTo
              /\ calls[1].err \in TooManyMessages => (retLogs = <<>> /\ retErr = NoError)
              /\ calls[1].err \in OtherMessages => (retLogs = <<>> /\ retErr = calls[1].err)
              /\ calls[1].err = NoError =>
                    (retLogs = WindowLogs(qFrom, qTo) /\ retErr = NoError)

\* The one block of the range was refused and the call returned nothing,
\* without error.
C29_Witness ==
    /\ qFrom = qTo
    /\ lpc = "returned"
    /\ Len(calls) = 1
    /\ calls[1].err \in TooManyMessages
    /\ retLogs = <<>>
    /\ retErr = NoError

\* A step leaves the bounds the caller passed as they are; the from of a
\* fetchBlocks call is left out.
BoundsKept ==
    /\ qFrom' = qFrom /\ qTo' = qTo
    /\ aFrom' = aFrom /\ aTo' = aTo
    /\ sTo' = sTo
    /\ path' # "fetchBlocks" => sFrom' = sFrom

\* C30: FetchBlocksInRange, FetchBlocksInRangeAsync and ClientFilterLogs never
\* modify the caller's from and to, on success and on error alike; fetchBlocks
\* is the exception: it advances the caller's from in place, by one for every
\* block it fetched, up to to + 1 or to the block that failed.
C30_BoundsUnchanged ==
    /\ [][BoundsKept]_vars
    /\ [](path = "fetchBlocks" =>
            /\ sFrom = sI
            /\ sReqs # <<>> => sFrom = sReqs[1] + Len(sBlocks)
            /\ (spc = "returned" /\ retSErr = NoError /\ sReqs # <<>>) => sFrom = sTo + 1
            /\ (spc = "returned" /\ retSErr = NoError /\ sReqs = <<>>) => sFrom > sTo
            /\ (spc = "returned" /\ retSErr # NoError) =>
                  /\ retSErr \in {RpcError(sFrom, 1), RpcError(sFrom, 2)}
                  /\ sFrom <= sTo)

\* fetchBlocks returned three blocks and left the caller's from at to + 1.
C30_Witness ==
    /\ path = "fetchBlocks"
    /\ spc = "returned"
    /\ retSErr = NoError
    /\ retSBlocks = <<2, 3, 4>>
    /\ sFrom = 5
    /\ sTo = 4

====
